---- MODULE Spec2Model ----
(***************************************************************************)
(* Model of the persistence and coordination core of the agent-capsule     *)
(* backend (src/app/backend/app/services).  The store is a family of       *)
(* collections, each a function from point id to payload.  Every service   *)
(* method is one action; pure helpers are operators.                       *)
(*                                                                         *)
(* Abstractions:                                                           *)
(*  - uuid4 ids are fresh ids handed out by a per-collection counter, and  *)
(*    a caller can name only an id that was handed out or the id 0 that    *)
(*    never is; the store scrolls a collection in ascending id order;      *)
(*  - datetime.now() is a wall clock: each call reads any time in Times;   *)
(*  - a text is a pair (text, len): the first len characters of a named    *)
(*    text, so slicing s[:k] is (text, min(len, k));                       *)
(*  - money amounts and counters are naturals;                             *)
(*  - NoWallet stands for a wallet argument that is None or "" (both are   *)
(*    falsy in the ownership tests of the code);                           *)
(*  - updated_at, and created_at of records other than messages and        *)
(*    capsules, are not stored;                                            *)
(*  - a request handler in flight is an entry of calls; concurrent         *)
(*    handlers take turns between two calls to the store.                  *)
(***************************************************************************)
EXTENDS Integers, Sequences, FiniteSets

VARIABLES agents, chats, messages, pointers, capsules, staking, earnings,
          ids, hist, last, preferences, calls, served, singleton, collections

vars == <<agents, chats, messages, pointers, capsules, staking, earnings,
          ids, hist, last, preferences, calls, served, singleton, collections>>

(***************************************************************************)
(* Bounds                                                                  *)
(***************************************************************************)
MaxAgents == 1
MaxChats == 2
MaxMsgs == 2
MaxPointers == 1
MaxCapsules == 1
MaxStakes == 3
MaxEarnings == 2
MaxQueries == 2
MaxTime == 1
\* the most create_staking calls where calls are what is explored
StakeCalls == 2
\* the most records per collection in the access-control specification
AccessCap == 1
\* the most request handlers in flight at once
MaxProcs == 2

Wallets == {"w1", "w2"}
NoWallet == ""
WalletArgs == Wallets \cup {NoWallet}
Times == 0..MaxTime

ChatIds == 1..MaxChats
Procs == 1..MaxProcs

NoOffset == 0

(***************************************************************************)
(* Program constants                                                       *)
(***************************************************************************)
PAGE_LIMIT == 200
LIST_DEFAULT_LIMIT == 1000
COUNTER_LIST_LIMIT == 5000
LAST_MESSAGE_CHARS == 100

(***************************************************************************)
(* Texts                                                                   *)
(***************************************************************************)
ShortText == [text |-> "hello", len |-> 5]
LongText == [text |-> "essay", len |-> 150]
Contents == {ShortText, LongText}
NoLastMessage == [text |-> "None", len |-> 0]

Min(a, b) == IF a <= b THEN a ELSE b

\* s[:k]
SliceNoCut(s, k) == s
Slice(s, k) == [text |-> s.text, len |-> Min(s.len, k)]

(***************************************************************************)
(* core/crypto.py                                                          *)
(***************************************************************************)
NoSecret == [kind |-> "none", v |-> ""]
EmptySecret == [kind |-> "str", v |-> ""]
Plain(k) == [kind |-> "str", v |-> k]
ApiKeys == {"sk-1"}

encrypt_secret(plaintext) ==
    IF plaintext = NoSecret THEN NoSecret
    ELSE IF plaintext = EmptySecret THEN EmptySecret
    ELSE [kind |-> "fernet", v |-> plaintext.v]

decrypt_secret_lenient(ciphertext) == Plain(ciphertext.v)
\* "raise" stands for the RuntimeError of an InvalidToken
decrypt_secret(ciphertext) ==
    IF ciphertext = NoSecret THEN NoSecret
    ELSE IF ciphertext = EmptySecret THEN EmptySecret
    ELSE IF ciphertext.kind = "fernet" THEN Plain(ciphertext.v)
    ELSE [kind |-> "raise", v |-> ""]

Truthy(secret) == secret # NoSecret /\ secret # EmptySecret

(***************************************************************************)
(* Store client (qdrant_service.py)                                        *)
(***************************************************************************)
RECURSIVE AscSeq(_)
AscSeq(S) ==
    IF S = {} THEN <<>>
    ELSE LET m == CHOOSE x \in S : \A y \in S : x <= y
         IN <<m>> \o AscSeq(S \ {m})

\* upsert_record / set_payload of one point
Put(coll, id, payload) ==
    [i \in DOMAIN coll \cup {id} |-> IF i = id THEN payload ELSE coll[i]]

\* delete_by_id, delete_by_filter
Remove(coll, gone) == [i \in DOMAIN coll \ gone |-> coll[i]]

\* scroll: the points of matchIds from offset on, at most limit of them, and
\* the id of the next point when there is one
query_by_filter(matchIds, limit, offset) ==
    LET from == AscSeq({i \in matchIds : offset = NoOffset \/ i >= offset})
    IN [points |-> SubSeq(from, 1, Min(limit, Len(from))),
        next |-> IF Len(from) > limit THEN from[limit + 1] ELSE NoOffset]

(***************************************************************************)
(* MessageService.list_messages                                            *)
(***************************************************************************)
MessageMatch(msgs, chat_id, wallet) ==
    {i \in DOMAIN msgs : /\ msgs[i].chat_id = chat_id
                         /\ (wallet # NoWallet => msgs[i].wallet = wallet)}

\* the loop that stops after its first page
ScrollLoopOnePage(page_limit, matchIds, limit, offset, out, pages) ==
    [out |-> out \o query_by_filter(matchIds, Min(page_limit, limit - Len(out)), offset).points,
     pages |-> pages + 1]

\* while True: scroll a page of min(page_limit, limit - len(out)) records,
\* stop when there is no next offset or limit records are collected; pages
\* counts the calls to the store
RECURSIVE ScrollLoop(_, _, _, _, _, _)
ScrollLoop(page_limit, matchIds, limit, offset, out, pages) ==
    LET page == query_by_filter(matchIds, Min(page_limit, limit - Len(out)), offset)
        out2 == out \o page.points
    IN IF page.next = NoOffset \/ Len(out2) >= limit THEN [out |-> out2, pages |-> pages + 1]
       ELSE ScrollLoop(page_limit, matchIds, limit, page.next, out2, pages + 1)

ListLoop(matchIds, limit, offset, out) ==
    ScrollLoop(PAGE_LIMIT, matchIds, limit, offset, out, 0).out

\* list.sort(key=_ts): stable, ascending
RECURSIVE InsertByTs(_, _, _)
InsertByTs(msgs, sorted, id) ==
    IF sorted = <<>> THEN <<id>>
    ELSE IF msgs[Head(sorted)].created_at <= msgs[id].created_at
         THEN <<Head(sorted)>> \o InsertByTs(msgs, Tail(sorted), id)
         ELSE <<id>> \o sorted

RECURSIVE SortByTs(_, _)
SortByTs(msgs, seq) ==
    IF seq = <<>> THEN <<>>
    ELSE InsertByTs(msgs, SortByTs(msgs, SubSeq(seq, 1, Len(seq) - 1)), seq[Len(seq)])

\* list_messages with the page size of the scroll as a parameter
list_messages_paged(page_limit, msgs, chat_id, wallet, limit) ==
    LET got == ScrollLoop(page_limit, MessageMatch(msgs, chat_id, wallet), limit, NoOffset, <<>>, 0)
        out == SortByTs(msgs, got.out)
    IN [items |-> [k \in 1..Len(out) |->
                     [id |-> out[k], content |-> msgs[out[k]].content,
                      timestamp |-> msgs[out[k]].created_at]],
        pages |-> got.pages]

list_messages(msgs, chat_id, wallet, limit) ==
    list_messages_paged(PAGE_LIMIT, msgs, chat_id, wallet, limit).items

(***************************************************************************)
(* Outcomes of a call: a returned value or a raised exception              *)
(***************************************************************************)
NoneOut == [kind |-> "none"]
Raise(msg) == [kind |-> "raise", msg |-> msg, arg |-> 0]
RaiseFor(msg, id) == [kind |-> "raise", msg |-> msg, arg |-> id]
Done == [kind |-> "ok"]

(***************************************************************************)
(* AgentService: reads                                                     *)
(***************************************************************************)
AgentView(id, payload, api_key) ==
    [kind |-> "agent", id |-> id,
     display_name |-> payload.display_name,
     api_key_configured |-> Truthy(payload.api_key_encrypted),
     model |-> payload.model,
     user_wallet |-> payload.wallet,
     api_key |-> api_key]

get_agent_unscoped(ags, agent_id, wallet_address) ==
    IF agent_id \notin DOMAIN ags THEN NoneOut
    ELSE LET encrypted == ags[agent_id].api_key_encrypted
         IN AgentView(agent_id, ags[agent_id],
                      IF Truthy(encrypted) THEN decrypt_secret(encrypted) ELSE NoSecret)

get_agent(ags, agent_id, wallet_address) ==
    IF agent_id \notin DOMAIN ags THEN NoneOut
    ELSE IF wallet_address # NoWallet /\ ags[agent_id].wallet # wallet_address THEN NoneOut
    ELSE LET encrypted == ags[agent_id].api_key_encrypted
         IN AgentView(agent_id, ags[agent_id],
                      IF Truthy(encrypted) THEN decrypt_secret(encrypted) ELSE NoSecret)

get_user_agents(ags, wallet_address) ==
    LET out == AscSeq({i \in DOMAIN ags : wallet_address # NoWallet => ags[i].wallet = wallet_address})
    IN [k \in 1..Len(out) |-> AgentView(out[k], ags[out[k]], NoSecret)]

(***************************************************************************)
(* ChatService: reads                                                      *)
(***************************************************************************)
ChatView(chs, msgs, chat_id, wallet) ==
    LET payload == chs[chat_id]
        listed == list_messages(msgs, chat_id,
                                IF payload.wallet # NoWallet THEN payload.wallet ELSE wallet,
                                LIST_DEFAULT_LIMIT)
    IN [kind |-> "chat", id |-> chat_id,
        name |-> payload.name,
        memory_size |-> payload.memory_size,
        last_message |-> payload.last_message,
        message_count |-> IF payload.message_count # 0 THEN payload.message_count ELSE Len(listed),
        messages |-> listed,
        agent_id |-> payload.agent_id,
        user_wallet |-> payload.wallet,
        web_search_enabled |-> payload.web_search_enabled]

get_chat(chs, msgs, chat_id, wallet) ==
    IF chat_id \notin DOMAIN chs THEN NoneOut
    ELSE IF wallet # NoWallet /\ chs[chat_id].wallet # wallet THEN NoneOut
    ELSE ChatView(chs, msgs, chat_id, wallet)

\* the ids of the chats list_chats returns, in scroll order
list_chats(chs, agent_id, wallet) ==
    AscSeq({i \in DOMAIN chs : /\ chs[i].agent_id = agent_id
                               /\ (wallet # NoWallet => chs[i].wallet = wallet)})

(***************************************************************************)
(* ChatService: writes, as functions of the store                          *)
(***************************************************************************)
update_chat_counters_unscoped(chs, chat_id, wallet, message_count, last_message) ==
    IF chat_id \notin DOMAIN chs THEN chs
    ELSE Put(chs, chat_id, [chs[chat_id] EXCEPT !.message_count = message_count,
                                                !.last_message = last_message])

update_chat_counters_stamp(chs, chat_id, wallet, message_count, last_message) ==
    IF chat_id \notin DOMAIN chs THEN chs
    ELSE IF wallet # NoWallet /\ chs[chat_id].wallet # wallet THEN chs
    ELSE Put(chs, chat_id, [chs[chat_id] EXCEPT !.message_count = message_count,
                                                !.last_message = last_message,
                                                !.wallet = wallet])

update_chat_counters(chs, chat_id, wallet, message_count, last_message) ==
    IF chat_id \notin DOMAIN chs THEN chs
    ELSE IF wallet # NoWallet /\ chs[chat_id].wallet # wallet THEN chs
    ELSE Put(chs, chat_id, [chs[chat_id] EXCEPT !.message_count = message_count,
                                                !.last_message = last_message])

\* MemoryService.delete_chat_memories; failed: the store delete raised and
\* the exception was swallowed
delete_chat_memories(ptrs, agent_id, chat_id, failed) ==
    IF failed THEN ptrs
    ELSE Remove(ptrs, {i \in DOMAIN ptrs : ptrs[i].agent_id = agent_id /\ ptrs[i].chat_id = chat_id})

delete_messages_for_chat(msgs, chat_id, wallet) ==
    Remove(msgs, MessageMatch(msgs, chat_id, wallet))

\* st = [chats, messages, pointers]
delete_chat_unscoped(st, chat_id, wallet, ptrFailed) ==
    LET chat == get_chat(st.chats, st.messages, chat_id, NoWallet)
    IN IF chat = NoneOut THEN st
       ELSE [pointers |-> delete_chat_memories(st.pointers, chat.agent_id, chat_id, ptrFailed),
             messages |-> delete_messages_for_chat(st.messages, chat_id, wallet),
             chats |-> Remove(st.chats, {chat_id})]

delete_chat(st, chat_id, wallet, ptrFailed) ==
    LET chat == get_chat(st.chats, st.messages, chat_id, wallet)
    IN IF chat = NoneOut THEN st
       ELSE [pointers |-> delete_chat_memories(st.pointers, chat.agent_id, chat_id, ptrFailed),
             messages |-> delete_messages_for_chat(st.messages, chat_id, wallet),
             chats |-> Remove(st.chats, {chat_id})]

\* the loop of delete_agent over the listed chats
RECURSIVE DeleteChats(_, _, _, _)
DeleteChats(st, chatSeq, wallet, failChats) ==
    IF chatSeq = <<>> THEN st
    ELSE DeleteChats(delete_chat(st, Head(chatSeq), wallet, Head(chatSeq) \in failChats),
                     Tail(chatSeq), wallet, failChats)

Store == [chats |-> chats, messages |-> messages, pointers |-> pointers]


(***************************************************************************)
(* AgentService: writes, as functions of the store                         *)
(***************************************************************************)
NoPatch == "None"

\* a patch: what an AgentUpdate request carries.  update_agent reads its
\* display_name and model
AgentPatch(display_name, model, api_key) ==
    [display_name |-> display_name, model |-> model, api_key |-> api_key]

\* the update that writes the fields of the patch as they come
update_agent_patch_all(ags, agent_id, wallet_address, patch) ==
    IF agent_id \notin DOMAIN ags
    THEN [agents |-> ags, out |-> Raise("Agent not found")]
    ELSE IF ags[agent_id].wallet # wallet_address
    THEN [agents |-> ags, out |-> Raise("Agent not found or unauthorized")]
    ELSE LET payload == [ags[agent_id] EXCEPT
                           !.display_name = patch.display_name,
                           !.description = patch.display_name,
                           !.model = patch.model]
         IN [agents |-> Put(ags, agent_id, payload),
             out |-> AgentView(agent_id, payload, NoSecret)]

update_agent_patch(ags, agent_id, wallet_address, patch) ==
    IF agent_id \notin DOMAIN ags
    THEN [agents |-> ags, out |-> Raise("Agent not found")]
    ELSE IF ags[agent_id].wallet # wallet_address
    THEN [agents |-> ags, out |-> Raise("Agent not found or unauthorized")]
    ELSE LET payload == [ags[agent_id] EXCEPT
                           !.display_name =
                               IF patch.display_name # NoPatch THEN patch.display_name ELSE @,
                           !.description =
                               IF patch.display_name # NoPatch THEN patch.display_name ELSE @,
                           !.model = IF patch.model # NoPatch THEN patch.model ELSE @]
         IN [agents |-> Put(ags, agent_id, payload),
             out |-> AgentView(agent_id, payload, NoSecret)]

update_agent(ags, agent_id, wallet_address, display_name, model) ==
    update_agent_patch(ags, agent_id, wallet_address, AgentPatch(display_name, model, NoPatch))

\* st = [chats, messages, pointers]
delete_agent(ags, st, agent_id, wallet_address, failChats) ==
    IF get_agent(ags, agent_id, wallet_address) = NoneOut
    THEN [agents |-> ags, st |-> st,
          out |-> RaiseFor("Agent {agent_id} not found or unauthorized", agent_id)]
    ELSE [agents |-> Remove(ags, {agent_id}),
          st |-> DeleteChats(st, list_chats(st.chats, agent_id, wallet_address),
                             wallet_address, failChats),
          out |-> Done]

update_chat(chs, msgs, chat_id, wallet, name, memory_size, web_search_enabled) ==
    LET existing == get_chat(chs, msgs, chat_id, wallet)
    IN IF existing = NoneOut
       THEN [chats |-> chs, out |-> Raise("Chat not found")]
       ELSE LET patched == [existing EXCEPT
                              !.name = IF name # NoPatch THEN name ELSE @,
                              !.memory_size = IF memory_size # NoPatch THEN memory_size ELSE @,
                              !.web_search_enabled =
                                  IF web_search_enabled # NoPatch
                                  THEN web_search_enabled = "True" ELSE @]
            IN [chats |-> Put(chs, chat_id,
                              [chs[chat_id] EXCEPT
                                 !.name = patched.name,
                                 !.memory_size = patched.memory_size,
                                 !.web_search_enabled = patched.web_search_enabled]),
                out |-> patched]

(***************************************************************************)
(* CapsuleService, as functions of the store                               *)
(***************************************************************************)
\* a description that is empty, metadata that are {}
NoDescription == ""
NoMetadata == ""

\* embed_text of "name\ndescription\ncategory": the vector the provider
\* returns for that text, told apart by the text it was made from
embed_text(name, description, category) == [of |-> <<name, description, category>>]

CapsuleView(id, payload) ==
    [kind |-> "capsule", id |-> id,
     name |-> payload.name,
     description |-> payload.description,
     metadata |-> payload.metadata,
     category |-> payload.category,
     creator_wallet |-> payload.creator_wallet,
     price_per_query |-> payload.price_per_query,
     stake_amount |-> payload.stake_amount,
     reputation |-> payload.reputation,
     query_count |-> payload.query_count,
     rating |-> payload.rating,
     created_at |-> payload.created_at]

get_capsule(caps, capsule_id) ==
    IF capsule_id \notin DOMAIN caps THEN NoneOut
    ELSE CapsuleView(capsule_id, caps[capsule_id])

\* a patch: what a CapsuleUpdate request carries.  update_capsule reads its
\* name, description, price_per_query and metadata
CapsulePatch(name, description, category, price_per_query, metadata) ==
    [name |-> name, description |-> description, category |-> category,
     price_per_query |-> price_per_query, metadata |-> metadata]

\* the flag that a name alone sets
ChangedByName(patch) == patch.name # NoPatch
\* changed_for_embedding
ChangedForEmbedding(patch) == patch.name # NoPatch \/ patch.description # NoPatch

\* embedOk: the embedding provider answered with a vector of the right size;
\* price_per_query = 0 stands for a patch without a price
update_capsule_patch(caps, capsule_id, wallet_address, patch, embedOk) ==
    LET existing == get_capsule(caps, capsule_id)
    IN IF existing = NoneOut THEN [capsules |-> caps, out |-> NoneOut]
       ELSE IF existing.creator_wallet # wallet_address THEN [capsules |-> caps, out |-> NoneOut]
       ELSE IF ChangedForEmbedding(patch) /\ ~embedOk
       THEN [capsules |-> caps, out |-> Raise("embedding")]
       ELSE LET payload == [caps[capsule_id] EXCEPT
                              !.name = IF patch.name # NoPatch THEN patch.name ELSE @,
                              !.description =
                                  IF patch.description # NoPatch THEN patch.description ELSE @,
                              !.price_per_query =
                                  IF patch.price_per_query # 0 THEN patch.price_per_query ELSE @,
                              !.metadata =
                                  IF patch.metadata # NoPatch THEN patch.metadata ELSE @]
                \* set_payload keeps the vector, upsert_record replaces it
                stored == IF ChangedForEmbedding(patch)
                          THEN [payload EXCEPT !.vector = embed_text(payload.name,
                                                                     payload.description,
                                                                     payload.category)]
                          ELSE payload
            IN [capsules |-> Put(caps, capsule_id, stored),
                out |-> CapsuleView(capsule_id, stored)]

update_capsule(caps, capsule_id, wallet_address, name, price_per_query, embedOk) ==
    update_capsule_patch(caps, capsule_id, wallet_address,
                         CapsulePatch(name, NoPatch, NoPatch, price_per_query, NoPatch), embedOk)

delete_capsule(caps, capsule_id, wallet_address) ==
    LET existing == get_capsule(caps, capsule_id)
    IN IF existing = NoneOut THEN caps
       ELSE IF existing.creator_wallet # wallet_address THEN caps
       ELSE Remove(caps, {capsule_id})

\* What the chain RPC answers for a signature: getTransaction has no result,
\* a result whose meta carries an error, or a result that succeeded.
NoSignature == ""
Signatures == {"sigMissing", "sigFailed", "sigOk"}
ChainTx(signature) ==
    IF signature = "sigOk" THEN "ok"
    ELSE IF signature = "sigFailed" THEN "err"
    ELSE "none"

\* the transfer the chain holds for a signature that names a transaction:
\* who paid whom how much
ChainTransfer(signature) == [sender |-> "w1", recipient |-> "w2", amount |-> 2]

\* rpcUp = FALSE: the HTTP call raised (transport error, timeout)
verify_payment(signature, sender, recipient, amount, rpcUp) ==
    IF ~rpcUp THEN FALSE
    ELSE IF ChainTx(signature) = "none" THEN FALSE
    ELSE IF ChainTx(signature) = "err" THEN FALSE
    ELSE TRUE

record_earnings_dropped(earns, id, capsule_id, wallet_address, amount) == earns
record_earnings(earns, id, capsule_id, wallet_address, amount) ==
    Put(earns, id, [wallet |-> wallet_address, capsule_id |-> capsule_id,
                    amount |-> amount, source |-> "usage"])

increment_query_count(caps, capsule_id) ==
    IF capsule_id \notin DOMAIN caps THEN caps
    ELSE Put(caps, capsule_id, [caps[capsule_id] EXCEPT !.query_count = @ + 1])

QueryResponse(capsule_id, name, amount_paid) ==
    [kind |-> "response", capsule_id |-> capsule_id, name |-> name,
     price_paid |-> amount_paid]

\* "if payment_signature and amount_paid"; amount_paid = 0 stands for 0 and
\* for None (both falsy, both reported as 0)
PaymentClaimedAnyAmount(payment_signature, amount_paid) ==
    payment_signature # NoSignature
PaymentClaimed(payment_signature, amount_paid) ==
    payment_signature # NoSignature /\ amount_paid # 0

query_capsule(caps, earns, earning_id, capsule_id, wallet_address, payment_signature, amount_paid, rpcUp) ==
    LET capsule == get_capsule(caps, capsule_id)
    IN IF capsule = NoneOut
       THEN [capsules |-> caps, earnings |-> earns, out |-> Raise("Capsule not found")]
       ELSE IF PaymentClaimed(payment_signature, amount_paid)
       THEN IF ~verify_payment(payment_signature, wallet_address,
                               capsule.creator_wallet, amount_paid, rpcUp)
            THEN [capsules |-> caps, earnings |-> earns,
                  out |-> Raise("Payment verification failed")]
            ELSE [capsules |-> increment_query_count(caps, capsule_id),
                  earnings |-> record_earnings(earns, earning_id, capsule_id,
                                               capsule.creator_wallet, amount_paid),
                  out |-> QueryResponse(capsule_id, capsule.name, amount_paid)]
       ELSE [capsules |-> increment_query_count(caps, capsule_id),
             earnings |-> earns,
             out |-> QueryResponse(capsule_id, capsule.name, amount_paid)]

(***************************************************************************)
(* Bookkeeping of the checks: what the call found before it acted, and for *)
(* each chat the run of add_message calls by its owner since creation.     *)
(***************************************************************************)
\* how the stored owner of coll[id] relates to the caller's wallet
Standing(coll, id, wallet) ==
    IF id \notin DOMAIN coll THEN "absent"
    ELSE IF wallet = NoWallet THEN "nowallet"
    ELSE IF coll[id].wallet = wallet THEN "owner"
    ELSE "foreign"

CapsuleStanding(caps, id, wallet) ==
    IF id \notin DOMAIN caps THEN "absent"
    ELSE IF wallet = NoWallet THEN "nowallet"
    ELSE IF caps[id].creator_wallet = wallet THEN "owner"
    ELSE "foreign"

Call(op, id, wallet, pre, out) ==
    [op |-> op, id |-> id, wallet |-> wallet, pre |-> pre, out |-> out]

QueryCall(id, wallet, pre, signature, amount_paid, rpcUp, out) ==
    [op |-> "query_capsule", id |-> id, wallet |-> wallet, pre |-> pre, out |-> out,
     signature |-> signature, amount_paid |-> amount_paid, rpcUp |-> rpcUp]

NoRun == [pure |-> FALSE, n |-> 0, lastContent |-> NoLastMessage]
Touched(c) == [k \in DOMAIN hist |-> IF k = c THEN [hist[k] EXCEPT !.pure = FALSE] ELSE hist[k]]

(***************************************************************************)
(* Actions: one per service method                                         *)
(***************************************************************************)
\* the name and the platform of every agent created here
AGENT_NAME == "agent"
AGENT_PLATFORM == "openrouter"

CreateAgentRecord(w, key, dn, model) ==
    /\ LET agent_id == ids.agents + 1
           payload == [wallet |-> w,
                       name |-> AGENT_NAME,
                       platform |-> AGENT_PLATFORM,
                       description |-> dn,
                       api_key_encrypted |-> encrypt_secret(key),
                       display_name |-> dn,
                       model |-> model]
       IN /\ agents' = Put(agents, agent_id, payload)
          /\ ids' = [ids EXCEPT !.agents = agent_id]
          /\ last' = Call("create_agent", agent_id, w, "absent",
                          AgentView(agent_id, payload, NoSecret))
    /\ UNCHANGED <<chats, messages, pointers, hist, capsules, staking, earnings>>

CreateAgent(w, key, dn, model) ==
    /\ ids.agents < MaxAgents
    /\ CreateAgentRecord(w, key, dn, model)

GetAgent(a, w) ==
    /\ last' = Call("get_agent", a, w, Standing(agents, a, w), get_agent(agents, a, w))
    /\ UNCHANGED <<agents, chats, messages, pointers, hist, capsules, staking, earnings, ids>>

GetUserAgents(w) ==
    /\ last' = Call("get_user_agents", 0, w, "list",
                    [kind |-> "agents", items |-> get_user_agents(agents, w)])
    /\ UNCHANGED <<agents, chats, messages, pointers, hist, capsules, staking, earnings, ids>>

UpdateAgent(a, w, dn, model) ==
    /\ LET r == update_agent(agents, a, w, dn, model)
       IN /\ agents' = r.agents
          /\ last' = Call("update_agent", a, w, Standing(agents, a, w), r.out)
    /\ UNCHANGED <<chats, messages, pointers, hist, capsules, staking, earnings, ids>>

DeleteAgent(a, w, failChats) ==
    /\ LET r == delete_agent(agents, Store, a, w, failChats)
       IN /\ agents' = r.agents
          /\ chats' = r.st.chats
          /\ messages' = r.st.messages
          /\ pointers' = r.st.pointers
          /\ last' = Call("delete_agent", a, w, Standing(agents, a, w), r.out)
    /\ UNCHANGED <<hist, capsules, staking, earnings, ids>>

\* create_chat with the clock reading now
CreateChatAt(a, w, name, mem, web, now) ==
    /\ ids.chats < MaxChats
    /\ LET chat_id == ids.chats + 1
           payload == [agent_id |-> a, wallet |-> w, name |-> name,
                       memory_size |-> mem, web_search_enabled |-> web,
                       message_count |-> 0, last_message |-> NoLastMessage,
                       timestamp |-> now]
       IN /\ chats' = Put(chats, chat_id, payload)
          /\ ids' = [ids EXCEPT !.chats = chat_id]
          /\ hist' = [k \in DOMAIN hist |->
                        IF k = chat_id
                        THEN [pure |-> TRUE, n |-> 0, lastContent |-> NoLastMessage]
                        ELSE hist[k]]
          /\ last' = Call("create_chat", chat_id, w, "absent",
                          [kind |-> "chat", id |-> chat_id, name |-> name,
                           memory_size |-> mem, last_message |-> NoLastMessage,
                           message_count |-> 0, messages |-> <<>>, agent_id |-> a,
                           user_wallet |-> w, web_search_enabled |-> web])
    /\ UNCHANGED <<agents, messages, pointers, capsules, staking, earnings>>

CreateChat(a, w, name, mem, web) == CreateChatAt(a, w, name, mem, web, 0)

GetChat(c, w) ==
    /\ last' = Call("get_chat", c, w, Standing(chats, c, w), get_chat(chats, messages, c, w))
    /\ UNCHANGED <<agents, chats, messages, pointers, hist, capsules, staking, earnings, ids>>

UpdateChat(c, w, name, mem, web) ==
    /\ LET r == update_chat(chats, messages, c, w, name, mem, web)
       IN /\ chats' = r.chats
          /\ hist' = IF r.out.kind = "chat" THEN Touched(c) ELSE hist
          /\ last' = Call("update_chat", c, w, Standing(chats, c, w), r.out)
    /\ UNCHANGED <<agents, messages, pointers, capsules, staking, earnings, ids>>

UpdateChatCounters(c, w, count, snippet) ==
    /\ chats' = update_chat_counters(chats, c, w, count, snippet)
    /\ hist' = IF Standing(chats, c, w) \in {"owner", "nowallet"} THEN Touched(c) ELSE hist
    /\ last' = Call("update_chat_counters", c, w, Standing(chats, c, w), NoneOut)
    /\ UNCHANGED <<agents, messages, pointers, capsules, staking, earnings, ids>>

DeleteChat(c, w, ptrFailed) ==
    /\ LET st == delete_chat(Store, c, w, ptrFailed)
       IN /\ chats' = st.chats
          /\ messages' = st.messages
          /\ pointers' = st.pointers
    /\ last' = Call("delete_chat", c, w, Standing(chats, c, w), NoneOut)
    /\ UNCHANGED <<agents, hist, capsules, staking, earnings, ids>>

MessagePayload(chat_id, agent_id, wallet, content, now) ==
    [chat_id |-> chat_id, agent_id |-> agent_id, wallet |-> wallet,
     content |-> content, created_at |-> now]

MessageView(id, content, now) ==
    [kind |-> "message", id |-> id, content |-> content, timestamp |-> now]

\* MessageService.add_message
MessageAddMessage(c, a, w, content, now, embedOk) ==
    /\ IF ~embedOk
       THEN /\ last' = Call("message_add", c, w, Standing(chats, c, w), Raise("embedding"))
            /\ UNCHANGED <<messages, ids, hist>>
       ELSE /\ ids.messages < MaxMsgs
            /\ messages' = Put(messages, ids.messages + 1, MessagePayload(c, a, w, content, now))
            /\ ids' = [ids EXCEPT !.messages = @ + 1]
            /\ hist' = IF c \in DOMAIN hist THEN Touched(c) ELSE hist
            /\ last' = Call("message_add", c, w, Standing(chats, c, w),
                            MessageView(ids.messages + 1, content, now))
    /\ UNCHANGED <<agents, chats, pointers, capsules, staking, earnings>>

\* AgentService.add_message
AgentAddMessage(c, w, content, now, embedOk) ==
    /\ LET chat == get_chat(chats, messages, c, w)
       IN IF chat = NoneOut
          THEN /\ last' = Call("add_message", c, w, Standing(chats, c, w), Raise("Chat not found"))
               /\ UNCHANGED <<chats, messages, ids, hist>>
          ELSE IF ~embedOk
          THEN /\ last' = Call("add_message", c, w, Standing(chats, c, w), Raise("embedding"))
               /\ UNCHANGED <<chats, messages, ids, hist>>
          ELSE LET message_id == ids.messages + 1
                   stored == Put(messages, message_id,
                                 MessagePayload(c, chat.agent_id, w, content, now))
                   msgs == list_messages(stored, c, w, COUNTER_LIST_LIMIT)
               IN /\ ids.messages < MaxMsgs
                  /\ messages' = stored
                  /\ ids' = [ids EXCEPT !.messages = message_id]
                  /\ chats' = update_chat_counters(chats, c, w, Len(msgs),
                                                   Slice(content, LAST_MESSAGE_CHARS))
                  /\ hist' = IF w = chats[c].wallet
                             THEN [k \in DOMAIN hist |->
                                     IF k = c THEN [pure |-> hist[c].pure, n |-> hist[c].n + 1,
                                                    lastContent |-> content]
                                     ELSE hist[k]]
                             ELSE Touched(c)
                  /\ last' = Call("add_message", c, w, Standing(chats, c, w),
                                  MessageView(message_id, content, now))
    /\ UNCHANGED <<agents, pointers, capsules, staking, earnings>>

\* MemoryService.store_chat_memory: one pointer record for a stored memory
StoreChatMemory(a, c) ==
    /\ ids.pointers < MaxPointers
    /\ pointers' = Put(pointers, ids.pointers + 1, [agent_id |-> a, chat_id |-> c])
    /\ ids' = [ids EXCEPT !.pointers = @ + 1]
    /\ last' = Call("store_chat_memory", c, NoWallet, "absent", Done)
    /\ UNCHANGED <<agents, chats, messages, hist, capsules, staking, earnings>>

\* create_capsule of a capsule with a description, in a category, with
\* metadata, the clock reading now
CreateCapsuleWith(w, name, description, price, category, metadata, now, embedOk) ==
    /\ IF ~embedOk
       THEN /\ last' = Call("create_capsule", 0, w, "absent", Raise("embedding"))
            /\ UNCHANGED <<capsules, ids>>
       ELSE LET capsule_id == ids.capsules + 1
                payload == [creator_wallet |-> w, name |-> name, description |-> description,
                            category |-> category,
                            price_per_query |-> price, stake_amount |-> 0,
                            is_listed |-> FALSE, reputation |-> 0, query_count |-> 0,
                            rating |-> 0, created_at |-> now, metadata |-> metadata,
                            vector |-> embed_text(name, description, category)]
            IN /\ capsules' = Put(capsules, capsule_id, payload)
               /\ ids' = [ids EXCEPT !.capsules = capsule_id]
               /\ last' = Call("create_capsule", capsule_id, w, "absent",
                               CapsuleView(capsule_id, payload))
    /\ UNCHANGED <<agents, chats, messages, pointers, hist, staking, earnings>>

CreateCapsuleAt(w, name, price, category, now, embedOk) ==
    CreateCapsuleWith(w, name, NoDescription, price, category, NoMetadata, now, embedOk)

CreateCapsule(w, name, price, embedOk) ==
    /\ embedOk => ids.capsules < MaxCapsules
    /\ CreateCapsuleAt(w, name, price, "Finance", 0, embedOk)

UpdateCapsule(cid, w, name, price, embedOk) ==
    /\ LET r == update_capsule(capsules, cid, w, name, price, embedOk)
       IN /\ capsules' = r.capsules
          /\ last' = Call("update_capsule", cid, w, CapsuleStanding(capsules, cid, w), r.out)
    /\ UNCHANGED <<agents, chats, messages, pointers, hist, staking, earnings, ids>>

DeleteCapsule(cid, w) ==
    /\ capsules' = delete_capsule(capsules, cid, w)
    /\ last' = Call("delete_capsule", cid, w, CapsuleStanding(capsules, cid, w), NoneOut)
    /\ UNCHANGED <<agents, chats, messages, pointers, hist, staking, earnings, ids>>

QueryCapsule(cid, w, signature, amount_paid, rpcUp) ==
    /\ LET r == query_capsule(capsules, earnings, ids.earnings + 1, cid, w,
                              signature, amount_paid, rpcUp)
       IN /\ r.earnings # earnings => ids.earnings < MaxEarnings
          /\ r.capsules # capsules => capsules[cid].query_count < MaxQueries
          /\ capsules' = r.capsules
          /\ earnings' = r.earnings
          /\ ids' = [ids EXCEPT !.earnings = IF r.earnings # earnings THEN @ + 1 ELSE @]
          /\ last' = QueryCall(cid, w, CapsuleStanding(capsules, cid, w),
                               signature, amount_paid, rpcUp, r.out)
    /\ UNCHANGED <<agents, chats, messages, pointers, hist, staking>>

\* WalletService.create_staking
CreateStakingOverwrite(cid, w, amount) ==
    /\ ids.staking < MaxStakes
    /\ staking' = Put(staking, ids.staking + 1,
                      [capsule_id |-> cid, staker_wallet |-> w, amount |-> amount])
    /\ ids' = [ids EXCEPT !.staking = @ + 1]
    /\ IF cid \in DOMAIN capsules
       THEN capsules' = Put(capsules, cid, [capsules[cid] EXCEPT
                                             !.stake_amount = amount,
                                             !.is_listed = amount > 0])
       ELSE UNCHANGED capsules
    /\ last' = Call("create_staking", cid, w, CapsuleStanding(capsules, cid, w),
                    [kind |-> "staking", capsule_id |-> cid, wallet_address |-> w,
                     stake_amount |-> amount])
    /\ UNCHANGED <<agents, chats, messages, pointers, hist, earnings>>

CreateStaking(cid, w, amount) ==
    /\ ids.staking < MaxStakes
    /\ staking' = Put(staking, ids.staking + 1,
                      [capsule_id |-> cid, staker_wallet |-> w, amount |-> amount])
    /\ ids' = [ids EXCEPT !.staking = @ + 1]
    /\ IF cid \in DOMAIN capsules
       THEN LET new_stake == capsules[cid].stake_amount + amount
            IN capsules' = Put(capsules, cid, [capsules[cid] EXCEPT
                                                 !.stake_amount = new_stake,
                                                 !.is_listed = new_stake > 0])
       ELSE UNCHANGED capsules
    /\ last' = Call("create_staking", cid, w, CapsuleStanding(capsules, cid, w),
                    [kind |-> "staking", capsule_id |-> cid, wallet_address |-> w,
                     stake_amount |-> amount])
    /\ UNCHANGED <<agents, chats, messages, pointers, hist, earnings>>

(***************************************************************************)
(* Inputs                                                                  *)
(***************************************************************************)
DisplayNames == {"d1"}
DisplayPatches == {NoPatch, "d2"}
Models == {"m1"}
ModelPatches == {NoPatch, "m2"}
ChatNames == {"c1"}
ChatNamePatches == {NoPatch, "c2"}
MemorySizes == {"Small"}
MemoryPatches == {NoPatch, "Large"}
WebPatches == {NoPatch, "True"}
CapsuleNames == {"cap1"}
CapsuleNamePatches == {NoPatch, "cap2"}
Prices == {1}
PricePatches == {0, 2}
StakeAmounts == {0, 5}
PaidAmounts == {0, 2}

\* the ids a caller can name: those handed out so far, and 0
KnownAgents == 0..ids.agents
KnownChats == 0..ids.chats
KnownCapsules == 0..ids.capsules

\* _collection_specs: the collections the backend needs, in the order
\* _ensure_collections visits them
COLLECTION_SPECS == <<"agents", "chats", "messages", "preferences", "capsules", "staking",
                      "earnings", "mem0_pointers">>
Required == {COLLECTION_SPECS[k] : k \in 1..Len(COLLECTION_SPECS)}

\* the test that finds no collection
ExistsNever(name, existing) == FALSE
\* client.collection_exists
CollectionExists(name, existing) == name \in existing

\* _ensure_collections over specs: existing are the collections of the store,
\* created those made so far; create_collection fails for failAt
RECURSIVE EnsureCollections(_, _, _, _)
EnsureCollections(specs, existing, created, failAt) ==
    IF specs = <<>> THEN [collections |-> existing, created |-> created, out |-> Done]
    ELSE IF CollectionExists(Head(specs), existing)
    THEN EnsureCollections(Tail(specs), existing, created, failAt)
    ELSE IF Head(specs) = failAt
    THEN [collections |-> existing, created |-> created,
          out |-> Raise("create_collection failed")]
    ELSE EnsureCollections(Tail(specs), existing \cup {Head(specs)},
                           created \cup {Head(specs)}, failAt)

\* create_collection makes an empty collection
Created(coll, name, created) == IF name \in created THEN <<>> ELSE coll

\* the module global _qdrant_singleton
NoSingleton == "None"
QdrantService == "QdrantService"

\* a handler slot with no request in it; the requests completed so far
IdleCall == [op |-> "idle"]
NothingServed == [queries |-> <<>>, keys |-> <<>>]

\* what the sequential specifications leave alone: one request at a time,
\* after a successful startup
OneAtATime == UNCHANGED <<preferences, calls, served, singleton, collections>>

Init ==
    /\ agents = <<>>
    /\ chats = <<>>
    /\ messages = <<>>
    /\ pointers = <<>>
    /\ capsules = <<>>
    /\ staking = <<>>
    /\ earnings = <<>>
    /\ ids = [agents |-> 0, chats |-> 0, messages |-> 0, pointers |-> 0,
              capsules |-> 0, staking |-> 0, earnings |-> 0]
    /\ hist = [c \in ChatIds |-> NoRun]
    /\ last = Call("init", 0, NoWallet, "absent", NoneOut)
    /\ preferences = <<>>
    /\ calls = [p \in Procs |-> IdleCall]
    /\ served = NothingServed
    /\ singleton = QdrantService
    /\ collections = Required

RealAgents == 1..ids.agents
RealChats == 1..ids.chats

(***************************************************************************)
(* SpecAppend: appending to chats, with every content, time and embedding  *)
(* outcome                                                                 *)
(***************************************************************************)
NextAppend ==
    /\ OneAtATime
    /\ \/ \E w \in Wallets, k \in ApiKeys, dn \in DisplayNames, m \in Models :
            CreateAgent(w, Plain(k), dn, m)
       \/ \E a \in RealAgents, w \in Wallets, n \in ChatNames, ms \in MemorySizes :
            CreateChat(a, w, n, ms, FALSE)
       \/ \E c \in KnownChats, w \in WalletArgs, t \in Contents, now \in Times, ok \in BOOLEAN :
            AgentAddMessage(c, w, t, now, ok)
       \/ \E c \in RealChats, w \in Wallets :
            MessageAddMessage(c, chats[c].agent_id, w, ShortText, 0, TRUE)

SpecAppend == Init /\ [][NextAppend]_vars

(***************************************************************************)
(* SpecCascade: cascading deletes over agents, chats, messages, pointers   *)
(***************************************************************************)
NextCascade ==
    /\ OneAtATime
    /\ \/ \E w \in Wallets, k \in ApiKeys, dn \in DisplayNames, m \in Models :
            CreateAgent(w, Plain(k), dn, m)
       \/ \E a \in RealAgents, w \in Wallets, n \in ChatNames, ms \in MemorySizes :
            CreateChat(a, w, n, ms, FALSE)
       \/ \E c \in KnownChats, w \in WalletArgs : AgentAddMessage(c, w, ShortText, 0, TRUE)
       \/ \E c \in DOMAIN chats : StoreChatMemory(chats[c].agent_id, c)
       \/ \E c \in KnownChats, w \in WalletArgs, f \in BOOLEAN : DeleteChat(c, w, f)
       \/ \E a \in KnownAgents, w \in WalletArgs, fs \in SUBSET DOMAIN chats :
            DeleteAgent(a, w, fs)

SpecCascade == Init /\ [][NextCascade]_vars

(***************************************************************************)
(* SpecAccess: every operation on an owned entity, called by every wallet, *)
(* over at most AccessCap records per collection.  The agent/chat family   *)
(* and the capsule family share no collection and no operation of one      *)
(* reads the other, so a run exercises one family.                         *)
(***************************************************************************)
ChatFamilyIdle == ids.agents = 0 /\ ids.chats = 0 /\ ids.messages = 0 /\ ids.pointers = 0
CapsuleFamilyIdle == ids.capsules = 0 /\ ids.staking = 0 /\ ids.earnings = 0

NextAccessChats ==
    \/ \E w \in Wallets, k \in ApiKeys, dn \in DisplayNames, m \in Models :
         ids.agents < AccessCap /\ CreateAgent(w, Plain(k), dn, m)
    \/ \E a \in KnownAgents, w \in WalletArgs : GetAgent(a, w)
    \/ \E w \in WalletArgs : GetUserAgents(w)
    \/ \E a \in KnownAgents, w \in WalletArgs, dn \in DisplayPatches :
         UpdateAgent(a, w, dn, NoPatch)
    \/ \E a \in KnownAgents, w \in WalletArgs : DeleteAgent(a, w, {})
    \/ \E a \in RealAgents, w \in Wallets, n \in ChatNames, ms \in MemorySizes :
         ids.chats < AccessCap /\ CreateChat(a, w, n, ms, FALSE)
    \/ \E c \in KnownChats, w \in WalletArgs : GetChat(c, w)
    \/ \E c \in KnownChats, w \in WalletArgs, n \in ChatNamePatches :
         UpdateChat(c, w, n, NoPatch, NoPatch)
    \/ \E c \in KnownChats, w \in WalletArgs : UpdateChatCounters(c, w, 1, ShortText)
    \/ \E c \in KnownChats, w \in WalletArgs : DeleteChat(c, w, FALSE)
    \/ \E c \in KnownChats, w \in WalletArgs :
         ids.messages < AccessCap /\ AgentAddMessage(c, w, ShortText, 0, TRUE)
    \/ \E c \in DOMAIN chats : StoreChatMemory(chats[c].agent_id, c)

NextAccessCapsules ==
    \/ \E w \in Wallets, n \in CapsuleNames, p \in Prices :
         ids.capsules < AccessCap /\ CreateCapsule(w, n, p, TRUE)
    \/ \E cid \in KnownCapsules, w \in WalletArgs, n \in CapsuleNamePatches, p \in PricePatches :
         UpdateCapsule(cid, w, n, p, TRUE)
    \/ \E cid \in KnownCapsules, w \in WalletArgs : DeleteCapsule(cid, w)
    \/ \E cid \in KnownCapsules, w \in Wallets :
         ids.earnings < AccessCap /\ QueryCapsule(cid, w, "sigOk", 2, TRUE)
    \/ \E cid \in KnownCapsules, w \in Wallets :
         ids.staking < AccessCap /\ CreateStaking(cid, w, 5)

NextAccess ==
    /\ OneAtATime
    /\ \/ CapsuleFamilyIdle /\ NextAccessChats
       \/ ChatFamilyIdle /\ NextAccessCapsules

SpecAccess == Init /\ [][NextAccess]_vars

(***************************************************************************)
(* SpecCapsule: capsules with paid and unpaid queries                      *)
(***************************************************************************)
NextCapsule ==
    /\ OneAtATime
    /\ \/ \E w \in Wallets, n \in CapsuleNames, p \in Prices, ok \in BOOLEAN :
            CreateCapsule(w, n, p, ok)
       \/ \E cid \in KnownCapsules, w \in Wallets : DeleteCapsule(cid, w)
       \/ \E cid \in KnownCapsules, w \in Wallets, sig \in Signatures \cup {NoSignature},
             paid \in PaidAmounts, up \in BOOLEAN : QueryCapsule(cid, w, sig, paid, up)

SpecCapsule == Init /\ [][NextCapsule]_vars

(***************************************************************************)
(* Request handlers in flight.  A handler takes one step per call to the   *)
(* store; what it read earlier travels with it in calls[p].  last records  *)
(* only calls that run alone.                                              *)
(***************************************************************************)
PrefKeys == {"theme", "lang"}
Unset == "unset"
NoPrefs == [k \in PrefKeys |-> Unset]
PrefPatches == {[k \in PrefKeys |-> IF k = x THEN "on" ELSE Unset] : x \in PrefKeys}

\* {**existing, **new_prefs}
Merged(existing, new_prefs) ==
    [k \in PrefKeys |-> IF new_prefs[k] # Unset THEN new_prefs[k] ELSE existing[k]]

\* rec_id = f"pref:{wallet}"
PrefId(wallet) == <<"pref:", wallet>>

get_preferences(prefs, wallet) ==
    IF PrefId(wallet) \in DOMAIN prefs THEN prefs[PrefId(wallet)].preferences ELSE NoPrefs

\* the record upsert_preferences writes: created_at is the stored one when
\* the record exists
PrefPayload(prefs, wallet, merged, now) ==
    [wallet |-> wallet, preferences |-> merged,
     created_at |-> IF PrefId(wallet) \in DOMAIN prefs THEN prefs[PrefId(wallet)].created_at
                    ELSE now,
     updated_at |-> now]

\* the upsert that stores what it is handed
upsert_preferences_replace(prefs, wallet, new_prefs, now) ==
    [preferences |-> Put(prefs, PrefId(wallet), PrefPayload(prefs, wallet, new_prefs, now)),
     out |-> new_prefs]

upsert_preferences(prefs, wallet, new_prefs, now) ==
    LET existing == get_preferences(prefs, wallet)
        merged == Merged(existing, new_prefs)
    IN [preferences |-> Put(prefs, PrefId(wallet), PrefPayload(prefs, wallet, merged, now)),
        out |-> merged]

clear_preferences(prefs, wallet) == Remove(prefs, {PrefId(wallet)})

Count(f, x) == IF x \in DOMAIN f THEN f[x] ELSE 0
KeysOf(f, x) == IF x \in DOMAIN f THEN f[x] ELSE {}

Idle(p) == calls[p] = IdleCall
Enter(p, call) == calls' = [calls EXCEPT ![p] = call]
Leave(p) == calls' = [calls EXCEPT ![p] = IdleCall]
At(p, op, pc) == calls[p].op = op /\ calls[p].pc = pc

\* upsert_preferences: get_preferences
PrefRead(p, w, new_prefs) ==
    /\ Idle(p)
    /\ Enter(p, [op |-> "upsert_preferences", pc |-> "write", wallet |-> w,
                 new_prefs |-> new_prefs, existing |-> get_preferences(preferences, w)])
    /\ UNCHANGED <<agents, chats, messages, pointers, capsules, staking, earnings,
                   ids, hist, last, preferences, served, singleton, collections>>

\* upsert_preferences: get_by_id for created_at, then upsert_record
PrefWrite(p) ==
    /\ At(p, "upsert_preferences", "write")
    /\ LET c == calls[p]
       IN /\ preferences' = Put(preferences, PrefId(c.wallet),
                                PrefPayload(preferences, c.wallet,
                                            Merged(c.existing, c.new_prefs), 0))
          /\ served' = [served EXCEPT !.keys =
                          Put(@, c.wallet, KeysOf(@, c.wallet) \cup
                                           {k \in PrefKeys : c.new_prefs[k] # Unset})]
    /\ Leave(p)
    /\ UNCHANGED <<agents, chats, messages, pointers, capsules, staking, earnings,
                   ids, hist, last, singleton, collections>>

\* create_staking: upsert_record of the staking record
StakeUpsert(p, cid, w, amount) ==
    /\ Idle(p)
    /\ ids.staking < MaxStakes
    /\ staking' = Put(staking, ids.staking + 1,
                      [capsule_id |-> cid, staker_wallet |-> w, amount |-> amount])
    /\ ids' = [ids EXCEPT !.staking = @ + 1]
    /\ Enter(p, [op |-> "create_staking", pc |-> "read", cid |-> cid, amount |-> amount])
    /\ UNCHANGED <<agents, chats, messages, pointers, capsules, earnings,
                   hist, last, preferences, served, singleton, collections>>

\* create_staking: get_by_id of the capsule
StakeRead(p) ==
    /\ At(p, "create_staking", "read")
    /\ IF calls[p].cid \in DOMAIN capsules
       THEN Enter(p, [op |-> "create_staking", pc |-> "write", cid |-> calls[p].cid,
                      amount |-> calls[p].amount, cap |-> capsules[calls[p].cid]])
       ELSE Leave(p)
    /\ UNCHANGED <<agents, chats, messages, pointers, capsules, staking, earnings,
                   ids, hist, last, preferences, served, singleton, collections>>

\* the payload create_staking writes back
stake_payload_unlisted(cap, amount) == [cap EXCEPT !.stake_amount = cap.stake_amount + amount]
stake_payload(cap, amount) ==
    [cap EXCEPT !.stake_amount = cap.stake_amount + amount,
                !.is_listed = (cap.stake_amount + amount) > 0]

\* create_staking: set_payload of the capsule
StakeWrite(p) ==
    /\ At(p, "create_staking", "write")
    /\ capsules' = Put(capsules, calls[p].cid, stake_payload(calls[p].cap, calls[p].amount))
    /\ Leave(p)
    /\ UNCHANGED <<agents, chats, messages, pointers, staking, earnings,
                   ids, hist, last, preferences, served, singleton, collections>>

\* query_capsule without payment: get_capsule
QueryRead(p, cid) ==
    /\ Idle(p)
    /\ Count(served.queries, cid) < MaxQueries
    /\ IF get_capsule(capsules, cid) = NoneOut
       THEN UNCHANGED calls
       ELSE Enter(p, [op |-> "query_capsule", pc |-> "inc_read", cid |-> cid])
    /\ UNCHANGED <<agents, chats, messages, pointers, capsules, staking, earnings,
                   ids, hist, last, preferences, served, singleton, collections>>

\* _increment_query_count: get_by_id
QueryIncRead(p) ==
    /\ At(p, "query_capsule", "inc_read")
    /\ Enter(p, [op |-> "query_capsule", pc |-> "inc_write", cid |-> calls[p].cid,
                 cap |-> capsules[calls[p].cid]])
    /\ UNCHANGED <<agents, chats, messages, pointers, capsules, staking, earnings,
                   ids, hist, last, preferences, served, singleton, collections>>

\* _increment_query_count: set_payload
QueryIncWriteStored(p) ==
    /\ At(p, "query_capsule", "inc_write")
    /\ capsules' = increment_query_count(capsules, calls[p].cid)
    /\ served' = [served EXCEPT !.queries = Put(@, calls[p].cid, Count(@, calls[p].cid) + 1)]
    /\ Leave(p)
    /\ UNCHANGED <<agents, chats, messages, pointers, staking, earnings,
                   ids, hist, last, preferences, singleton, collections>>

QueryIncWrite(p) ==
    /\ At(p, "query_capsule", "inc_write")
    /\ capsules' = Put(capsules, calls[p].cid,
                       [calls[p].cap EXCEPT !.query_count = @ + 1])
    /\ served' = [served EXCEPT !.queries = Put(@, calls[p].cid, Count(@, calls[p].cid) + 1)]
    /\ Leave(p)
    /\ UNCHANGED <<agents, chats, messages, pointers, staking, earnings,
                   ids, hist, last, preferences, singleton, collections>>

\* update_capsule with a new name: get_capsule, the ownership test, get_by_id
UpdateRead(p, cid, w, name) ==
    /\ Idle(p)
    /\ IF update_capsule(capsules, cid, w, name, 0, TRUE).out = NoneOut
       THEN UNCHANGED calls
       ELSE Enter(p, [op |-> "update_capsule", pc |-> "write", cid |-> cid,
                      payload |-> [capsules[cid] EXCEPT !.name = name]])
    /\ UNCHANGED <<agents, chats, messages, pointers, capsules, staking, earnings,
                   ids, hist, last, preferences, served, singleton, collections>>

\* update_capsule: upsert_record, once embed_text has answered
UpdateWrite(p) ==
    /\ At(p, "update_capsule", "write")
    /\ capsules' = Put(capsules, calls[p].cid, calls[p].payload)
    /\ Leave(p)
    /\ UNCHANGED <<agents, chats, messages, pointers, staking, earnings,
                   ids, hist, last, preferences, served, singleton, collections>>

(***************************************************************************)
(* SpecRace: handlers in flight on one capsule and one preferences record  *)
(***************************************************************************)
Stakers == {"w1"}

NextRace ==
    \/ \E w \in Stakers, n \in CapsuleNames, pr \in Prices :
         CreateCapsule(w, n, pr, TRUE) /\ OneAtATime
    \/ \E p \in Procs, w \in Stakers, np \in PrefPatches : PrefRead(p, w, np)
    \/ \E p \in Procs : PrefWrite(p)
    \/ \E p \in Procs, cid \in KnownCapsules, w \in Stakers, a \in StakeAmounts :
         ids.staking < StakeCalls /\ StakeUpsert(p, cid, w, a)
    \/ \E p \in Procs : StakeRead(p)
    \/ \E p \in Procs : StakeWrite(p)
    \/ \E p \in Procs, cid \in KnownCapsules : QueryRead(p, cid)
    \/ \E p \in Procs : QueryIncRead(p)
    \/ \E p \in Procs : QueryIncWrite(p)
    \/ \E p \in Procs, cid \in KnownCapsules, w \in Stakers : UpdateRead(p, cid, w, "cap2")
    \/ \E p \in Procs : UpdateWrite(p)

SpecRace == Init /\ [][NextRace]_vars

(***************************************************************************)
(* MarketplaceService                                                      *)
(***************************************************************************)
FETCH_FLOOR == 50
FETCH_CEILING == 1000
TRENDING_FACTOR == 5
TRENDING_CEILING == 200

Max(a, b) == IF a >= b THEN a ELSE b

\* a filter that is None; a category that is None or ""
NoBound == -1
NoCategory == ""
SortKeys == {"popular", "newest", "price_low", "price_high", "rating"}
NoSortBy == ""

SortKey(c, sort_by) ==
    IF sort_by = "popular" THEN c.query_count
    ELSE IF sort_by = "newest" THEN c.created_at
    ELSE IF sort_by = "rating" THEN c.rating
    ELSE c.price_per_query

\* list.sort(key=..., reverse=...): stable both ways
Reversed(sort_by) == sort_by \in {"popular", "newest", "price_high", "rating"}

StaysBehindAlways(v, c, sort_by) == TRUE
StaysBehind(v, c, sort_by) ==
    IF Reversed(sort_by) THEN SortKey(c, sort_by) >= SortKey(v, sort_by)
    ELSE SortKey(c, sort_by) <= SortKey(v, sort_by)

RECURSIVE InsertView(_, _, _)
InsertView(sorted, v, sort_by) ==
    IF sorted = <<>> THEN <<v>>
    ELSE IF StaysBehind(v, Head(sorted), sort_by)
         THEN <<Head(sorted)>> \o InsertView(Tail(sorted), v, sort_by)
         ELSE <<v>> \o sorted

RECURSIVE SortViews(_, _)
SortViews(seq, sort_by) ==
    IF seq = <<>> THEN <<>>
    ELSE InsertView(SortViews(SubSeq(seq, 1, Len(seq) - 1), sort_by), seq[Len(seq)], sort_by)

\* seq[from : to] of Python, 0 <= from <= to
Window(seq, from, to) == SubSeq(seq, from + 1, Min(to, Len(seq)))

Everything(caps) == DOMAIN caps
\* must = [stake_amount gt 0]
Staked(caps) == {i \in DOMAIN caps : caps[i].stake_amount > 0}

Views(caps, points) == [k \in 1..Len(points) |-> CapsuleView(points[k], caps[points[k]])]

\* the fetch that takes every match
FetchAll(floor, ceiling, limit, offset) == FETCH_CEILING
\* fetch_limit, with 50 and 1000 as floor and ceiling
FetchLimit(floor, ceiling, limit, offset) == Min(Max(offset + limit, floor), ceiling)

\* browse_capsules with the floor and the ceiling of its fetch window given
browse_capsules_windowed(floor, ceiling, caps, category, min_reputation, max_price, sort_by, limit, offset) ==
    LET match == {i \in Staked(caps) :
                    /\ category # NoCategory => caps[i].category = category
                    /\ min_reputation # NoBound => caps[i].reputation >= min_reputation
                    /\ max_price # NoBound => caps[i].price_per_query <= max_price}
        fetch_limit == FetchLimit(floor, ceiling, limit, offset)
        found == Views(caps, query_by_filter(match, fetch_limit, NoOffset).points)
        by == IF sort_by = NoSortBy THEN "popular" ELSE sort_by
        ordered == IF by \in SortKeys THEN SortViews(found, by) ELSE found
    IN Window(ordered, offset, offset + limit)

browse_capsules(caps, category, min_reputation, max_price, sort_by, limit, offset) ==
    browse_capsules_windowed(FETCH_FLOOR, FETCH_CEILING, caps, category, min_reputation,
                             max_price, sort_by, limit, offset)

\* the trending fetch that takes every staked capsule
TrendingAll(factor, ceiling, limit) == TRENDING_CEILING
\* min(limit * 5, 200), with 5 and 200 given
TrendingLimit(factor, ceiling, limit) == Min(limit * factor, ceiling)

get_trending_windowed(factor, ceiling, caps, limit) ==
    LET found == Views(caps, query_by_filter(Staked(caps), TrendingLimit(factor, ceiling, limit),
                                             NoOffset).points)
    IN Window(SortViews(found, "popular"), 0, limit)

get_trending_capsules(caps, limit) ==
    get_trending_windowed(TRENDING_FACTOR, TRENDING_CEILING, caps, limit)

\* the characters of a capsule's name or description
Letters(name) ==
    IF name = "cap1" THEN <<"c", "a", "p", "1">>
    ELSE IF name = "cap2" THEN <<"c", "a", "p", "2">>
    ELSE IF name = "Cap2" THEN <<"C", "a", "p", "2">>
    ELSE IF name = "A p" THEN <<"A", " ", "p">>
    ELSE <<>>

\* str.lower
LowerChar(ch) ==
    IF ch = "A" THEN "a" ELSE IF ch = "C" THEN "c" ELSE IF ch = "P" THEN "p" ELSE ch
Lower(text) == [i \in 1..Len(text) |-> LowerChar(text[i])]

\* str.strip
RECURSIVE Strip(_)
Strip(text) ==
    IF text = <<>> THEN <<>>
    ELSE IF Head(text) = " " THEN Strip(Tail(text))
    ELSE IF text[Len(text)] = " " THEN Strip(SubSeq(text, 1, Len(text) - 1))
    ELSE text

\* q in text
Contains(text, q) ==
    \E i \in 1..(Len(text) + 1) :
        /\ i + Len(q) - 1 <= Len(text)
        /\ \A k \in 1..Len(q) : text[i + k - 1] = q[k]

\* the filter that looks at names only
QueryInName(c, q) == Contains(Lower(Letters(c.name)), q)
\* q in name.lower() or q in description.lower()
QueryIn(c, q) ==
    Contains(Lower(Letters(c.name)), q) \/ Contains(Lower(Letters(c.description)), q)

RECURSIVE Keep(_, _)
Keep(seq, q) ==
    IF seq = <<>> THEN <<>>
    ELSE IF QueryIn(seq[1], q) THEN <<seq[1]>> \o Keep(Tail(seq), q)
    ELSE Keep(Tail(seq), q)

search_capsules(caps, query, limit) ==
    LET q == Lower(Strip(query))
        found == Views(caps, query_by_filter(Staked(caps), FETCH_CEILING, NoOffset).points)
    IN IF q = <<>> THEN Window(found, 0, limit)
       ELSE Window(Keep(found, q), 0, limit)

CATEGORY_SCAN == 1000
DEFAULT_CATEGORIES == <<"Finance", "Gaming", "Health", "Technology", "Education">>
\* the category strings of this model in the order sorted() gives them:
\* capitals before small letters
SortedStrings == <<"Education", "Finance", "Gaming", "Health", "Technology", "art">>

\* the scan that sees staked capsules only
CategoryScanStaked(caps) == {i \in DOMAIN caps : caps[i].stake_amount > 0}
\* qfilter=None
CategoryScan(caps) == DOMAIN caps

RECURSIVE SortedOf(_, _)
SortedOf(cats, order) ==
    IF order = <<>> THEN <<>>
    ELSE IF Head(order) \in cats THEN <<Head(order)>> \o SortedOf(cats, Tail(order))
    ELSE SortedOf(cats, Tail(order))

\* get_categories with the size of its scan given
get_categories_scanned(scan_limit, caps) ==
    LET points == query_by_filter(CategoryScan(caps), scan_limit, NoOffset).points
        cats == {caps[points[k]].category : k \in {j \in 1..Len(points) :
                                                     caps[points[j]].category # NoCategory}}
    IN IF cats = {} THEN DEFAULT_CATEGORIES ELSE SortedOf(cats, SortedStrings)

get_categories(caps) == get_categories_scanned(CATEGORY_SCAN, caps)

ListCall(op, sort_by, out) ==
    [op |-> op, id |-> 0, wallet |-> NoWallet, pre |-> "absent", sort_by |-> sort_by,
     out |-> [kind |-> "capsules", items |-> out]]

BrowseCapsules(category, min_reputation, max_price, sort_by, limit, offset) ==
    /\ last' = ListCall("browse_capsules", sort_by,
                        browse_capsules(capsules, category, min_reputation, max_price,
                                        sort_by, limit, offset))
    /\ UNCHANGED <<agents, chats, messages, pointers, capsules, staking, earnings, ids, hist>>

GetTrendingCapsules(limit) ==
    /\ last' = ListCall("get_trending_capsules", "popular",
                        get_trending_capsules(capsules, limit))
    /\ UNCHANGED <<agents, chats, messages, pointers, capsules, staking, earnings, ids, hist>>

SearchCapsules(q, limit) ==
    /\ last' = ListCall("search_capsules", NoSortBy, search_capsules(capsules, q, limit))
    /\ UNCHANGED <<agents, chats, messages, pointers, capsules, staking, earnings, ids, hist>>

(***************************************************************************)
(* SpecMarket: a marketplace of a few capsules, staked or not, browsed     *)
(* with every filter                                                       *)
(***************************************************************************)
MarketCapsules == 3
\* what a new capsule is like: its price, category, name and creation time
Offers == {[price |-> 1, category |-> "Finance", name |-> "cap1", now |-> 0],
           [price |-> 2, category |-> "Gaming", name |-> "cap2", now |-> 1],
           [price |-> 2, category |-> "Finance", name |-> "cap1", now |-> 1]}
\* the filters of a browse: none, a category, a reputation floor with a
\* price ceiling, and all three
FilterSets == {[category |-> NoCategory, min_reputation |-> NoBound, max_price |-> NoBound],
               [category |-> "Finance", min_reputation |-> NoBound, max_price |-> NoBound],
               [category |-> NoCategory, min_reputation |-> 0, max_price |-> 1],
               [category |-> "Gaming", min_reputation |-> 0, max_price |-> 2]}
RealCapsules == 1..ids.capsules
Limits == {1, 3}
\* the pages asked for: the whole list, its second entry, its tail
Pages == {[limit |-> 3, offset |-> 0], [limit |-> 1, offset |-> 1],
          [limit |-> 2, offset |-> 1]}
Queries == {<<>>, <<"a", "p">>, <<"p", "2">>}

NextMarket ==
    /\ OneAtATime
    /\ \/ \E o \in Offers :
            /\ ids.capsules < MarketCapsules
            /\ CreateCapsuleAt("w1", o.name, o.price, o.category, o.now, TRUE)
       \/ \E cid \in RealCapsules :
            /\ \A i \in DOMAIN staking : staking[i].capsule_id < cid
            /\ CreateStaking(cid, "w2", 5)
       \/ \E cid \in RealCapsules :
            /\ \A c \in DOMAIN capsules : capsules[c].query_count = 0
            /\ QueryCapsule(cid, "w2", NoSignature, 0, TRUE)
       \/ \E f \in FilterSets, by \in SortKeys \cup {NoSortBy, "oldest"}, pg \in Pages :
            BrowseCapsules(f.category, f.min_reputation, f.max_price, by, pg.limit, pg.offset)
       \/ \E lim \in Limits : GetTrendingCapsules(lim)
       \/ \E q \in Queries, lim \in Limits : SearchCapsules(q, lim)

SpecMarket == Init /\ [][NextMarket]_vars

(***************************************************************************)
(* SpecStake: capsules staked on, one call at a time                       *)
(***************************************************************************)
StakeSteps == {0, 5, 7}

NextStake ==
    /\ OneAtATime
    /\ \/ \E w \in Wallets, n \in CapsuleNames, p \in Prices :
            CreateCapsule(w, n, p, TRUE)
       \/ \E cid \in KnownCapsules, w \in Wallets, a \in StakeSteps :
            ids.staking < StakeCalls /\ CreateStaking(cid, w, a)
       \/ \E cid \in KnownCapsules, w \in Wallets, p \in PricePatches :
            UpdateCapsule(cid, w, NoPatch, p, TRUE)
       \/ \E cid \in KnownCapsules, w \in Wallets :
            QueryCapsule(cid, w, NoSignature, 0, TRUE)
       \/ \E cid \in KnownCapsules, w \in Wallets : DeleteCapsule(cid, w)

SpecStake == Init /\ [][NextStake]_vars

(***************************************************************************)
(* Properties                                                              *)
(***************************************************************************)
Collections == <<agents, chats, messages, pointers, capsules, staking, earnings>>

C2_DeleteChatRemovesAll ==
    (last.op = "delete_chat" /\ last.pre \in {"owner", "nowallet"}) =>
        /\ \A m \in DOMAIN messages : messages[m].chat_id # last.id
        /\ list_messages(messages, last.id, NoWallet, LIST_DEFAULT_LIMIT) = <<>>
        /\ get_chat(chats, messages, last.id, NoWallet) = NoneOut

\* C3: after a successful delete_agent no chat and no message with that
\* agent_id remains, and the agent record is absent.
C3_DeleteAgentRemovesAll ==
    (last.op = "delete_agent" /\ last.out = Done) =>
        /\ last.id \notin DOMAIN agents
        /\ \A c \in DOMAIN chats : chats[c].agent_id # last.id
        /\ \A m \in DOMAIN messages : messages[m].agent_id # last.id

\* C4: every message's chat_id names an existing chat and every chat's
\* agent_id names an existing agent.
C4_NoOrphans ==
    /\ \A m \in DOMAIN messages : messages[m].chat_id \in DOMAIN chats
    /\ \A c \in DOMAIN chats : chats[c].agent_id \in DOMAIN agents

\* C5: get_agent and get_chat called with a wallet that is not the stored
\* owner return none; called without a wallet they return the record.
C5_ScopedReads ==
    /\ (last.op \in {"get_agent", "get_chat"} /\ last.pre = "foreign") => last.out = NoneOut
    /\ (last.op = "get_agent" /\ last.pre = "nowallet") =>
           /\ last.out.kind = "agent" /\ last.out.id = last.id
           /\ last.out.user_wallet = agents[last.id].wallet
    /\ (last.op = "get_chat" /\ last.pre = "nowallet") =>
           /\ last.out.kind = "chat" /\ last.out.id = last.id
           /\ last.out.user_wallet = chats[last.id].wallet

C5_Witness == last.op = "get_agent" /\ last.pre = "foreign"

\* C6: no returned Agent carries a plaintext api_key, except from get_agent
\* called with the owner's wallet.
C6_KeyOnlyForOwner ==
    /\ (last.out.kind = "agent" /\ ~(last.op = "get_agent" /\ last.pre = "owner")) =>
           last.out.api_key = NoSecret
    /\ last.out.kind = "agents" =>
           \A k \in 1..Len(last.out.items) : last.out.items[k].api_key = NoSecret

\* the operations that change or remove a record with an owner
OwnedWrites == {"update_agent", "delete_agent", "update_chat", "delete_chat",
                "update_chat_counters", "update_capsule", "delete_capsule"}

\* C7: an update or delete called with a wallet that is not the stored owner
\* leaves every collection unchanged.
C7_ForeignWriteChangesNothing ==
    [][(last'.op \in OwnedWrites /\ last'.pre = "foreign") => UNCHANGED Collections]_vars

C7_Witness ==
    /\ last.op = "delete_chat" /\ last.pre = "foreign"
    /\ messages # <<>> /\ pointers # <<>>

\* what the call returns or raises once the record it names is taken away
OutcomeIfAbsent(op, id, w) ==
    IF op = "get_agent" THEN get_agent(Remove(agents, {id}), id, w)
    ELSE IF op = "update_agent"
         THEN update_agent(Remove(agents, {id}), id, w, NoPatch, NoPatch).out
    ELSE IF op = "delete_agent" THEN delete_agent(Remove(agents, {id}), Store, id, w, {}).out
    ELSE IF op = "get_chat" THEN get_chat(Remove(chats, {id}), messages, id, w)
    ELSE IF op = "update_chat"
         THEN update_chat(Remove(chats, {id}), messages, id, w, NoPatch, NoPatch, NoPatch).out
    ELSE IF op = "update_capsule"
         THEN update_capsule(Remove(capsules, {id}), id, w, NoPatch, 0, TRUE).out
    ELSE NoneOut

\* C8: the outcome of an owned-entity operation on an entity owned by another
\* wallet equals its outcome when the entity does not exist.
C8_ForeignLooksAbsent ==
    (last.pre = "foreign" /\ last.op \in {"get_agent", "update_agent", "delete_agent",
                                          "get_chat", "update_chat", "delete_chat",
                                          "update_capsule", "delete_capsule"}) =>
        last.out = OutcomeIfAbsent(last.op, last.id, last.wallet)

\* C9: the owner attribute of an agent, chat, message or capsule record never
\* changes while the record exists.
C9_OwnerNeverChanges ==
    [][/\ \A a \in DOMAIN agents \cap DOMAIN agents' : agents'[a].wallet = agents[a].wallet
       /\ \A c \in DOMAIN chats \cap DOMAIN chats' : chats'[c].wallet = chats[c].wallet
       /\ \A m \in DOMAIN messages \cap DOMAIN messages' :
              messages'[m].wallet = messages[m].wallet
       /\ \A k \in DOMAIN capsules \cap DOMAIN capsules' :
              capsules'[k].creator_wallet = capsules[k].creator_wallet]_vars

C9_Witness ==
    /\ last.op = "update_chat_counters" /\ last.pre = "nowallet"
    /\ chats[last.id].message_count = 1

\* C10: query_capsule with a signature that fails verification leaves
\* query_count unchanged and writes no earnings record; with amount_paid 0 it
\* adds 1 to query_count and writes no earnings record.
C10_QueryPayment ==
    [][(last'.op = "query_capsule" /\ last'.pre # "absent") =>
          LET q == last'
              before == capsules[q.id]
              after == capsules'[q.id]
          IN /\ ( /\ q.signature # NoSignature /\ q.amount_paid # 0
                  /\ ~verify_payment(q.signature, q.wallet, before.creator_wallet,
                                     q.amount_paid, q.rpcUp) )
                    => /\ after.query_count = before.query_count
                       /\ earnings' = earnings
                       /\ q.out = Raise("Payment verification failed")
             /\ q.amount_paid = 0
                    => /\ after.query_count = before.query_count + 1
                       /\ earnings' = earnings]_vars

C10_Witness ==
    /\ last.op = "query_capsule" /\ last.pre # "absent"
    /\ last.signature = "sigFailed" /\ last.amount_paid # 0 /\ last.rpcUp
    /\ earnings # <<>>

\* C11: a query_capsule call on an existing capsule whose payment verifies
\* writes exactly one new earnings record, for the capsule's creator wallet,
\* the capsule and the amount paid, and adds exactly 1 to query_count.
C11_PaidQueryRecorded ==
    [][(last'.op = "query_capsule" /\ last'.pre # "absent") =>
          LET q == last'
              before == capsules[q.id]
              new == DOMAIN earnings' \ DOMAIN earnings
          IN ( /\ q.signature # NoSignature /\ q.amount_paid # 0
               /\ verify_payment(q.signature, q.wallet, before.creator_wallet,
                                 q.amount_paid, q.rpcUp) )
                 => /\ Cardinality(new) = 1
                    /\ \A e \in new : /\ earnings'[e].wallet = before.creator_wallet
                                      /\ earnings'[e].capsule_id = q.id
                                      /\ earnings'[e].amount = q.amount_paid
                    /\ \A e \in DOMAIN earnings : /\ e \in DOMAIN earnings'
                                                  /\ earnings'[e] = earnings[e]
                    /\ capsules'[q.id].query_count = before.query_count + 1]_vars

\* a verified paid query by a wallet that is not the capsule's creator
C11_Witness ==
    /\ last.op = "query_capsule" /\ last.pre = "foreign"
    /\ last.signature = "sigOk" /\ last.amount_paid = 2 /\ last.rpcUp
    /\ last.out.kind = "response"
    /\ \E e \in DOMAIN earnings : /\ earnings[e].wallet = capsules[last.id].creator_wallet
                                  /\ earnings[e].wallet # last.wallet

\* C12: given a payment signature, query_capsule goes ahead only if the
\* transaction the signature names exists, succeeded, was sent by the caller,
\* was received by the capsule's creator and carries the claimed amount;
\* otherwise it fails with a payment-verification error.  Stated for calls
\* that claim an amount.
C12_PaymentChecked ==
    ( /\ last.op = "query_capsule" /\ last.pre # "absent"
      /\ last.signature # NoSignature /\ last.amount_paid # 0 ) =>
        IF /\ last.rpcUp
           /\ ChainTx(last.signature) = "ok"
           /\ ChainTransfer(last.signature).sender = last.wallet
           /\ ChainTransfer(last.signature).recipient = capsules[last.id].creator_wallet
           /\ ChainTransfer(last.signature).amount = last.amount_paid
        THEN last.out.kind = "response"
        ELSE last.out = Raise("Payment verification failed")

\* the sum of the amounts of the staking records of ids S
RECURSIVE SumAmounts(_, _)
SumAmounts(stk, S) ==
    IF S = {} THEN 0
    ELSE LET i == CHOOSE x \in S : TRUE
         IN stk[i].amount + SumAmounts(stk, S \ {i})

StakedOn(stk, cid) == SumAmounts(stk, {i \in DOMAIN stk : stk[i].capsule_id = cid})

\* C13: after any sequence of sequential create_staking calls on an existing
\* capsule that started with stake_amount 0, the stored stake_amount is the
\* sum of the staked amounts and is_listed is true exactly when the sum is
\* greater than 0.
C13_StakeIsSum ==
    \A c \in DOMAIN capsules :
        /\ capsules[c].stake_amount = StakedOn(staking, c)
        /\ capsules[c].is_listed = (StakedOn(staking, c) > 0)

\* 5 then 7 staked on one capsule
C13_Witness ==
    \E c \in DOMAIN capsules, i, j \in DOMAIN staking :
        /\ i < j /\ staking[i].capsule_id = c /\ staking[j].capsule_id = c
        /\ staking[i].amount = 5 /\ staking[j].amount = 7
        /\ capsules[c].stake_amount = 12 /\ capsules[c].is_listed
        /\ last.op = "create_staking"

\* C16: with no create_staking call in progress, each existing capsule's
\* stake_amount is the sum of the amounts of the staking records that name
\* it, and no staking record is written for a capsule id that has no capsule
\* record.
C16_StakingAtomic ==
    /\ \A p \in Procs : calls[p].op # "create_staking"
          => \A c \in DOMAIN capsules : capsules[c].stake_amount = StakedOn(staking, c)
    /\ (last.op = "create_staking" /\ last.pre = "absent")
          => \A i \in DOMAIN staking : staking[i].capsule_id # last.id

\* C14: in every reachable state, under any interleaving of create_capsule,
\* update_capsule, query_capsule and create_staking, every capsule record
\* has is_listed true if and only if its stake_amount is greater than 0.
C14_ListedIffStaked ==
    \A c \in DOMAIN capsules : capsules[c].is_listed <=> (capsules[c].stake_amount > 0)

\* a staked, listed capsule that handlers in flight have written to
C14_Witness ==
    /\ \E c \in DOMAIN capsules : /\ capsules[c].is_listed
                                  /\ capsules[c].query_count > 0
                                  /\ capsules[c].name = "cap2"
    /\ \E p \in Procs : calls[p].op = "create_staking" /\ calls[p].pc = "write"

\* C15: a capsule's stored stake_amount never decreases from one state to the
\* next, also when create_staking calls on one capsule run concurrently.
C15_StakeNeverDecreases ==
    [][\A c \in DOMAIN capsules \cap DOMAIN capsules' :
          capsules'[c].stake_amount >= capsules[c].stake_amount]_vars

StoreServices == {"AgentService", "ChatService", "MessageService", "CapsuleService",
                  "WalletService", "MarketplaceService", "PreferencesService"}
\* services whose constructor does not fetch the store client
OtherServices == {"MemoryService", "EmbeddingService"}
\* services that build an EmbeddingService, themselves or through a service
\* they build
NeedsEmbedder == {"EmbeddingService", "MessageService", "CapsuleService", "ChatService",
                  "AgentService", "MarketplaceService"}
NOT_INITIALIZED == "QdrantService not initialized. Did startup run?"

get_qdrant_service_unguarded(s) == Done
get_qdrant_service(s) ==
    IF s = NoSingleton THEN Raise(NOT_INITIALIZED) ELSE Done

\* Service(): the store client first, the embedder after it
construct(service, s, openaiKey) ==
    IF service \in StoreServices /\ get_qdrant_service(s).kind = "raise"
    THEN get_qdrant_service(s)
    ELSE IF service \in NeedsEmbedder /\ ~openaiKey
    THEN Raise("OPENAI_API_KEY is required for embeddings")
    ELSE Done

\* what QdrantService() meets: no QDRANT_URL, a store that does not answer,
\* a collection that cannot be ensured, or neither
InitOutcomes == {"no_url", "unreachable", "ensure_failed", "ok"}

\* store_calls: the requests sent to the store during the call
BootCall(op, service, out, store_calls) ==
    [op |-> op, service |-> service, out |-> out, store_calls |-> store_calls]

StoreUntouched ==
    UNCHANGED <<agents, chats, messages, pointers, capsules, staking, earnings, ids, hist,
                preferences, calls, served>>

\* no create_collection fails
NoFailure == "None"

InitCall(out, store_calls, created) ==
    [op |-> "init_qdrant_service", service |-> "QdrantService", out |-> out,
     store_calls |-> store_calls, created |-> created]

\* QdrantService() got as far as _ensure_collections
Ensure(failAt) ==
    LET r == EnsureCollections(COLLECTION_SPECS, collections, {}, failAt)
    IN /\ collections' = r.collections
       /\ agents' = Created(agents, "agents", r.created)
       /\ chats' = Created(chats, "chats", r.created)
       /\ messages' = Created(messages, "messages", r.created)
       /\ preferences' = Created(preferences, "preferences", r.created)
       /\ capsules' = Created(capsules, "capsules", r.created)
       /\ staking' = Created(staking, "staking", r.created)
       /\ earnings' = Created(earnings, "earnings", r.created)
       /\ pointers' = Created(pointers, "mem0_pointers", r.created)
       /\ last' = InitCall(r.out, 2, r.created)
       /\ singleton' = IF r.out = Done THEN QdrantService ELSE singleton
       /\ UNCHANGED <<ids, hist, calls, served>>

InitQdrantService(outcome) ==
    \/ /\ outcome = "no_url"
       /\ last' = InitCall(Raise("QDRANT_URL is required"), 0, {})
       /\ StoreUntouched
       /\ UNCHANGED <<singleton, collections>>
    \/ /\ outcome = "unreachable"
       /\ last' = InitCall(Raise("get_collections failed"), 1, {})
       /\ StoreUntouched
       /\ UNCHANGED <<singleton, collections>>
    \/ /\ outcome = "ensure_failed"
       /\ \E failAt \in Required \ collections : Ensure(failAt)
    \/ /\ outcome = "ok"
       /\ Ensure(NoFailure)

GetQdrantService ==
    /\ last' = BootCall("get_qdrant_service", "QdrantService", get_qdrant_service(singleton), 0)
    /\ StoreUntouched
    /\ UNCHANGED <<singleton, collections>>

Construct(service, openaiKey) ==
    /\ last' = BootCall("construct", service, construct(service, singleton, openaiKey), 0)
    /\ StoreUntouched
    /\ UNCHANGED <<singleton, collections>>

InitBoot ==
    /\ agents = <<>>
    /\ chats = <<>>
    /\ messages = <<>>
    /\ pointers = <<>>
    /\ capsules = <<>>
    /\ staking = <<>>
    /\ earnings = <<>>
    /\ ids = [agents |-> 0, chats |-> 0, messages |-> 0, pointers |-> 0,
              capsules |-> 0, staking |-> 0, earnings |-> 0]
    /\ hist = [c \in ChatIds |-> NoRun]
    /\ last = Call("init", 0, NoWallet, "absent", NoneOut)
    /\ preferences = <<>>
    /\ calls = [p \in Procs |-> IdleCall]
    /\ served = NothingServed
    /\ singleton = NoSingleton
    /\ collections = {}

\* a request handler constructs its service first, so it runs only once the
\* singleton is there
NextBoot ==
    \/ \E outcome \in InitOutcomes : InitQdrantService(outcome)
    \/ GetQdrantService
    \/ \E service \in StoreServices \cup OtherServices, key \in BOOLEAN :
        Construct(service, key)
    \/ /\ construct("CapsuleService", singleton, TRUE) = Done
       /\ NextCapsule

SpecBoot == InitBoot /\ [][NextBoot]_vars

ListingOps == {"browse_capsules", "get_trending_capsules", "search_capsules"}

\* C18: no marketplace listing (browse_capsules with any filters, limit and
\* offset, get_trending_capsules, search_capsules) returns a capsule whose
\* stored stake_amount is 0 or less
C18_OnlyStakedListed ==
    last.op \in ListingOps =>
        \A k \in 1..Len(last.out.items) :
            /\ last.out.items[k].stake_amount > 0
            /\ last.out.items[k].id \in DOMAIN capsules
            /\ capsules[last.out.items[k].id].stake_amount > 0

\* a browse returned a capsule while an older capsule, unstaked, was left out
C18_Witness ==
    /\ last.op = "browse_capsules"
    /\ Len(last.out.items) >= 1
    /\ \E c \in DOMAIN capsules :
        /\ capsules[c].stake_amount = 0
        /\ c < last.out.items[1].id

OrderedBy(items, sort_by) ==
    \A k \in 1..(Len(items) - 1) :
        CASE sort_by = "price_low" -> items[k].price_per_query <= items[k + 1].price_per_query
          [] sort_by = "price_high" -> items[k].price_per_query >= items[k + 1].price_per_query
          [] sort_by = "popular" -> items[k].query_count >= items[k + 1].query_count
          [] sort_by = "newest" -> items[k].created_at >= items[k + 1].created_at
          [] sort_by = "rating" -> items[k].rating >= items[k + 1].rating

\* C19: the page browse_capsules returns is ordered by the requested key:
\* price_low by non-decreasing price, price_high by non-increasing price,
\* popular (also when sort_by is absent) by non-increasing query_count,
\* newest by non-increasing created_at, rating by non-increasing rating
C19_PageOrdered ==
    /\ last.op = "browse_capsules"
    /\ last.sort_by \in SortKeys \cup {NoSortBy}
    => OrderedBy(last.out.items, IF last.sort_by = NoSortBy THEN "popular" ELSE last.sort_by)

\* a price_low page of two capsules, the cheaper one created later
C19_Witness ==
    /\ last.op = "browse_capsules"
    /\ last.sort_by = "price_low"
    /\ Len(last.out.items) >= 2
    /\ last.out.items[1].id > last.out.items[2].id
    /\ last.out.items[1].price_per_query < last.out.items[2].price_per_query


NotInitialized(call) == call.out = Raise(NOT_INITIALIZED) /\ call.store_calls = 0

\* C20: while the singleton is not set, every get_qdrant_service call and
\* every construction of a service that fetches the store client in its
\* constructor fails with the RuntimeError "QdrantService not initialized"
\* and sends nothing to the store; an init that fails leaves the singleton
\* unset, and only an init that succeeds sets it
C20_GuardedUntilInit ==
    [][singleton = NoSingleton =>
        /\ last'.op = "get_qdrant_service" => NotInitialized(last')
        /\ (last'.op = "construct" /\ last'.service \in StoreServices) => NotInitialized(last')
        /\ last'.op \in {"get_qdrant_service", "construct"} =>
            StoreUntouched /\ UNCHANGED <<singleton, collections>>
        /\ (last'.op = "init_qdrant_service" /\ last'.out.kind = "raise") =>
            singleton' = NoSingleton
        /\ singleton' # NoSingleton =>
            last'.op = "init_qdrant_service" /\ last'.out = Done
        /\ last'.op \in {"get_qdrant_service", "construct", "init_qdrant_service"}]_vars

\* a marketplace request arrived before startup and its service could not
\* be constructed
C20_Witness ==
    /\ singleton = NoSingleton
    /\ last.op = "construct"
    /\ last.service = "MarketplaceService"
    /\ NotInitialized(last)

\* C20 as stated: while the singleton is not set, the construction of every
\* service fails
C20_EveryConstructionFails ==
    [][(singleton = NoSingleton /\ last'.op = "construct") => last'.out.kind = "raise"]_vars

\* C21: when the owner deletes an existing chat and the clean-up of its
\* memory pointers fails, delete_chat still removes every message of the
\* chat and the chat record, and raises nothing
C21_DeleteSurvivesPointerFailure ==
    [][\A c \in DOMAIN chats, w \in Wallets :
        (/\ Standing(chats, c, w) = "owner"
         /\ \E p \in DOMAIN pointers : pointers[p].chat_id = c
         /\ DeleteChat(c, w, TRUE)) =>
            /\ \A m \in DOMAIN messages' : messages'[m].chat_id # c
            /\ c \notin DOMAIN chats'
            /\ last'.out.kind # "raise"]_vars

(***************************************************************************)
(* SpecSecret: api keys through encrypt_secret, the agents collection and  *)
(* decrypt_secret                                                          *)
(***************************************************************************)
\* what a caller supplies as api_key: None, "" or a key
Secrets == {NoSecret, EmptySecret} \cup {Plain(k) : k \in ApiKeys}
\* what encrypt_secret produces under the current key
Encrypted == {encrypt_secret(s) : s \in Secrets}
\* a string that is no token, and a token made under another key
Ciphertexts == Encrypted \cup {Plain(k) : k \in ApiKeys}
                         \cup {[kind |-> "fernet_other_key", v |-> k] : k \in ApiKeys}

SecretCall(op, arg, out) == [op |-> op, arg |-> arg, out |-> out]

RoundTrip(s) ==
    /\ last' = SecretCall("round_trip", s, decrypt_secret(encrypt_secret(s)))
    /\ UNCHANGED <<agents, chats, messages, pointers, capsules, staking, earnings, ids, hist>>

DecryptSecret(c) ==
    /\ last' = SecretCall("decrypt_secret", c, decrypt_secret(c))
    /\ UNCHANGED <<agents, chats, messages, pointers, capsules, staking, earnings, ids, hist>>

NextSecret ==
    /\ OneAtATime
    /\ \/ \E s \in Secrets : RoundTrip(s)
       \/ \E c \in Ciphertexts : DecryptSecret(c)
       \/ \E w \in Wallets, s \in Secrets, dn \in DisplayNames, m \in Models :
            CreateAgent(w, s, dn, m)
       \/ \E a \in KnownAgents, w \in WalletArgs : GetAgent(a, w)
       \/ \E a \in KnownAgents, w \in Wallets, dn \in DisplayPatches, m \in ModelPatches :
            UpdateAgent(a, w, dn, m)

SpecSecret == Init /\ [][NextSecret]_vars

\* what get_agent hands back for a supplied key: "" is stored as "" and read
\* back as None
ReadBack(s) == IF s = EmptySecret THEN NoSecret ELSE s

\* C22: decrypt_secret undoes encrypt_secret for every string, the empty one
\* included, and for None; decrypt_secret raises on anything encrypt_secret
\* did not produce under the current key; get_agent by the owner returns the
\* key create_agent was given when that key is not empty, and None when it is
\* empty or None; no later call changes the stored key
C22_SecretRoundTrip ==
    [][/\ last'.op = "round_trip" => last'.out = last'.arg
       /\ (last'.op = "decrypt_secret" /\ last'.arg \notin Encrypted) => last'.out.kind = "raise"
       /\ \A w \in Wallets, s \in Secrets, dn \in DisplayNames, m \in Models :
            CreateAgent(w, s, dn, m) =>
                get_agent(agents', ids'.agents, w).api_key = ReadBack(s)
       /\ \A a \in DOMAIN agents \cap DOMAIN agents' :
            agents'[a].api_key_encrypted = agents[a].api_key_encrypted]_vars

\* the owner reads the agent and gets the key back in plaintext
C22_Witness ==
    /\ last.op = "get_agent"
    /\ last.pre = "owner"
    /\ agents[last.id].api_key_encrypted \in Encrypted
    /\ last.out.api_key \in {Plain(k) : k \in ApiKeys}

\* C22 as stated: get_agent by the owner returns the api key create_agent
\* was given, whatever it was
C22_OwnerReadsSuppliedKey ==
    [][\A w \in Wallets, s \in Secrets, dn \in DisplayNames, m \in Models :
        CreateAgent(w, s, dn, m) => get_agent(agents', ids'.agents, w).api_key = s]_vars

(***************************************************************************)
(* SpecSteps: delete_chat and delete_agent one store call at a time, with  *)
(* nothing else running while a delete is in flight                        *)
(***************************************************************************)
Deleter == 1

DeleteCall(op, pc, agent_id, wallet, todo, listed) ==
    [op |-> op, pc |-> pc, agent_id |-> agent_id, wallet |-> wallet,
     todo |-> todo, listed |-> listed]

\* a delete_chat is between two of its store calls, on its own or inside the
\* loop of delete_agent
InDeleteChat == calls[Deleter].op \in {"delete_chat", "delete_agent"}
                /\ calls[Deleter].pc \in {"pointers", "messages", "chat"}
DeletingChat == Head(calls[Deleter].todo)

RestUntouched ==
    UNCHANGED <<capsules, staking, earnings, ids, hist, last, preferences, served, singleton, collections>>

\* delete_chat: get_chat
DeleteChatBegin(c, w) ==
    /\ Idle(Deleter)
    /\ IF get_chat(chats, messages, c, w) = NoneOut
       THEN UNCHANGED calls
       ELSE Enter(Deleter, DeleteCall("delete_chat", "pointers", chats[c].agent_id, w, <<c>>, <<c>>))
    /\ UNCHANGED <<agents, chats, messages, pointers>>
    /\ RestUntouched

\* delete_agent: get_agent, then get_agent_chats
DeleteAgentBegin(a, w) ==
    /\ Idle(Deleter)
    /\ IF get_agent(agents, a, w) = NoneOut
       THEN UNCHANGED calls
       ELSE Enter(Deleter, DeleteCall("delete_agent", "loop", a, w, list_chats(chats, a, w),
                                      list_chats(chats, a, w)))
    /\ UNCHANGED <<agents, chats, messages, pointers>>
    /\ RestUntouched

\* delete_agent: the next chat of the loop and the get_chat of its delete_chat
DeleteAgentLoop ==
    /\ At(Deleter, "delete_agent", "loop")
    /\ calls[Deleter].todo # <<>>
    /\ IF get_chat(chats, messages, DeletingChat, calls[Deleter].wallet) = NoneOut
       THEN calls' = [calls EXCEPT ![Deleter].todo = Tail(@)]
       ELSE calls' = [calls EXCEPT ![Deleter].pc = "pointers"]
    /\ UNCHANGED <<agents, chats, messages, pointers>>
    /\ RestUntouched

\* delete_chat: MemoryService().delete_chat_memories, which may fail
DeleteChatPointersAndRecord(failed) ==
    /\ InDeleteChat /\ calls[Deleter].pc = "pointers"
    /\ pointers' = delete_chat_memories(pointers, chats[DeletingChat].agent_id, DeletingChat, failed)
    /\ chats' = Remove(chats, {DeletingChat})
    /\ calls' = [calls EXCEPT ![Deleter].pc = "messages"]
    /\ UNCHANGED <<agents, messages>>
    /\ RestUntouched
DeleteChatPointers(failed) ==
    /\ InDeleteChat /\ calls[Deleter].pc = "pointers"
    /\ pointers' = delete_chat_memories(pointers, chats[DeletingChat].agent_id, DeletingChat, failed)
    /\ calls' = [calls EXCEPT ![Deleter].pc = "messages"]
    /\ UNCHANGED <<agents, chats, messages>>
    /\ RestUntouched

\* delete_chat: delete_messages_for_chat
DeleteChatMessages ==
    /\ InDeleteChat /\ calls[Deleter].pc = "messages"
    /\ messages' = delete_messages_for_chat(messages, DeletingChat, calls[Deleter].wallet)
    /\ calls' = [calls EXCEPT ![Deleter].pc = "chat"]
    /\ UNCHANGED <<agents, chats, pointers>>
    /\ RestUntouched

\* delete_chat: delete_by_id of the chat record, its last store call
DeleteChatRecord ==
    /\ InDeleteChat /\ calls[Deleter].pc = "chat"
    /\ chats' = Remove(chats, {DeletingChat})
    /\ IF calls[Deleter].op = "delete_chat"
       THEN Leave(Deleter)
       ELSE calls' = [calls EXCEPT ![Deleter].todo = Tail(@), ![Deleter].pc = "loop"]
    /\ UNCHANGED <<agents, messages, pointers>>
    /\ RestUntouched

\* delete_agent: delete_by_id of the agent record, once the loop is over
DeleteAgentRecord ==
    /\ At(Deleter, "delete_agent", "loop")
    /\ calls[Deleter].todo = <<>>
    /\ agents' = Remove(agents, {calls[Deleter].agent_id})
    /\ Leave(Deleter)
    /\ UNCHANGED <<chats, messages, pointers>>
    /\ RestUntouched

NextSteps ==
    \/ /\ Idle(Deleter)
       /\ OneAtATime
       /\ \/ \E w \in Wallets, k \in ApiKeys, dn \in DisplayNames, m \in Models :
               CreateAgent(w, Plain(k), dn, m)
          \/ \E a \in RealAgents, w \in Wallets, n \in ChatNames, ms \in MemorySizes :
               CreateChat(a, w, n, ms, FALSE)
          \/ \E c \in RealChats, w \in WalletArgs : AgentAddMessage(c, w, ShortText, 0, TRUE)
          \/ \E c \in DOMAIN chats : StoreChatMemory(chats[c].agent_id, c)
    \/ \E c \in KnownChats, w \in WalletArgs : DeleteChatBegin(c, w)
    \/ \E a \in KnownAgents, w \in Wallets : DeleteAgentBegin(a, w)
    \/ DeleteAgentLoop
    \/ \E failed \in BOOLEAN : DeleteChatPointers(failed)
    \/ DeleteChatMessages
    \/ DeleteChatRecord
    \/ DeleteAgentRecord

SpecSteps == Init /\ [][NextSteps]_vars

\* C23: while a delete_chat is between two of its store calls, the chat
\* record is still there whenever a message of the chat is; the step of
\* delete_agent that removes the agent record finds every chat it listed
\* already removed, and until that step the agent record is there
C23_ChildrenBeforeParent ==
    [][/\ (InDeleteChat /\ \E m \in DOMAIN messages : messages[m].chat_id = DeletingChat)
            => DeletingChat \in DOMAIN chats
       /\ calls[Deleter].op = "delete_agent" => calls[Deleter].agent_id \in DOMAIN agents
       /\ (calls[Deleter].op = "delete_agent" /\ agents' # agents) =>
            /\ \A k \in 1..Len(calls[Deleter].listed) : calls[Deleter].listed[k] \notin DOMAIN chats
            /\ calls'[Deleter] = IdleCall]_vars

\* delete_chat has deleted the caller's messages, another wallet's message of
\* the chat is still stored, and the chat record is about to go
C23_Witness ==
    /\ InDeleteChat
    /\ calls[Deleter].pc = "chat"
    /\ \E m \in DOMAIN messages : messages[m].chat_id = DeletingChat
    /\ DeletingChat \in DOMAIN chats

(***************************************************************************)
(* The list reads of chats and messages                                    *)
(***************************************************************************)
RECALL_K == 5

ChatRow(chs, id) ==
    [id |-> id, agent_id |-> chs[id].agent_id, user_wallet |-> chs[id].wallet,
     timestamp |-> chs[id].timestamp]

\* chats.sort(key=timestamp, reverse=True): stable, newest first
RECURSIVE InsertNewest(_, _)
InsertNewest(sorted, row) ==
    IF sorted = <<>> THEN <<row>>
    ELSE IF Head(sorted).timestamp >= row.timestamp
         THEN <<Head(sorted)>> \o InsertNewest(Tail(sorted), row)
         ELSE <<row>> \o sorted

RECURSIVE SortNewest(_)
SortNewest(rows) ==
    IF rows = <<>> THEN <<>>
    ELSE InsertNewest(SortNewest(SubSeq(rows, 1, Len(rows) - 1)), rows[Len(rows)])

\* the loop that stops after its first page
ScrollAllOnePage(page_limit, matchIds, offset, out) ==
    out \o query_by_filter(matchIds, page_limit, offset).points

\* while True: scroll a page of page_limit records, stop when there is no
\* next offset
RECURSIVE ScrollAll(_, _, _, _)
ScrollAll(page_limit, matchIds, offset, out) ==
    LET page == query_by_filter(matchIds, page_limit, offset)
    IN IF page.next = NoOffset THEN out \o page.points
       ELSE ScrollAll(page_limit, matchIds, page.next, out \o page.points)

\* ChatService.list_chats with the page size of the scroll as a parameter:
\* every page, then the sort
list_chats_paged(page_limit, chs, agent_id, wallet) ==
    LET match == {i \in DOMAIN chs : /\ chs[i].agent_id = agent_id
                                     /\ (wallet # NoWallet => chs[i].wallet = wallet)}
        out == ScrollAll(page_limit, match, NoOffset, <<>>)
    IN SortNewest([k \in 1..Len(out) |-> ChatRow(chs, out[k])])

chat_rows(chs, agent_id, wallet) == list_chats_paged(PAGE_LIMIT, chs, agent_id, wallet)

\* the messages semantic_recall may be handed by the vector search
RecallMatch(msgs, chat_id, agent_id, wallet) ==
    {i \in DOMAIN msgs : /\ msgs[i].chat_id = chat_id
                         /\ msgs[i].agent_id = agent_id
                         /\ msgs[i].wallet = wallet}

ListCallOf(op, id, wallet, kind, items) ==
    [op |-> op, id |-> id, wallet |-> wallet, out |-> [kind |-> kind, items |-> items]]

ListMessages(c, w, limit) ==
    /\ last' = ListCallOf("list_messages", c, w, "messages", list_messages(messages, c, w, limit))
    /\ UNCHANGED <<agents, chats, messages, pointers, capsules, staking, earnings, ids, hist>>

ListChats(a, w) ==
    /\ last' = ListCallOf("list_chats", a, w, "chats", chat_rows(chats, a, w))
    /\ UNCHANGED <<agents, chats, messages, pointers, capsules, staking, earnings, ids, hist>>

\* semantic_recall: the k nearest of the matching messages, in the order of
\* their score, which the model leaves open
SemanticRecall(c, a, w) ==
    /\ \E hits \in SUBSET RecallMatch(messages, c, a, w) :
        /\ Cardinality(hits) = Min(RECALL_K, Cardinality(RecallMatch(messages, c, a, w)))
        /\ \E order \in [1..Cardinality(hits) -> hits] :
            /\ \A i, j \in 1..Cardinality(hits) : i # j => order[i] # order[j]
            /\ last' = ListCallOf("semantic_recall", c, w, "messages",
                                  [k \in 1..Cardinality(hits) |->
                                     [id |-> order[k], content |-> messages[order[k]].content,
                                      timestamp |-> messages[order[k]].created_at]])
    /\ UNCHANGED <<agents, chats, messages, pointers, capsules, staking, earnings, ids, hist>>

(***************************************************************************)
(* SpecReads: chats and messages of two wallets, deleted and read back     *)
(***************************************************************************)
NextReads ==
    /\ OneAtATime
    /\ \/ \E k \in ApiKeys, dn \in DisplayNames, m \in Models : CreateAgent("w1", Plain(k), dn, m)
       \/ \E a \in RealAgents, w \in Wallets, n \in ChatNames, ms \in MemorySizes, now \in Times :
            CreateChatAt(a, w, n, ms, FALSE, now)
       \/ \E c \in RealChats, w \in WalletArgs, now \in Times :
            AgentAddMessage(c, w, ShortText, now, TRUE)
       \/ \E c \in RealChats, w \in Wallets : DeleteChat(c, w, FALSE)
       \/ \E a \in RealAgents, w \in Wallets : DeleteAgent(a, w, {})
       \/ \E c \in RealChats, w \in WalletArgs : GetChat(c, w)
       \/ \E c \in RealChats, w \in WalletArgs, limit \in {1, LIST_DEFAULT_LIMIT} :
            ListMessages(c, w, limit)
       \/ \E a \in RealAgents, w \in WalletArgs : ListChats(a, w)
       \/ \E c \in RealChats, a \in RealAgents, w \in Wallets : SemanticRecall(c, a, w)

SpecReads == Init /\ [][NextReads]_vars

\* C24: no read hands out an orphan: list_messages and semantic_recall
\* return no message whose chat record is absent, get_chat and list_chats
\* return no chat whose agent record is absent
C24_OrphansInvisible ==
    /\ last.op \in {"list_messages", "semantic_recall"} =>
        \A k \in 1..Len(last.out.items) :
            messages[last.out.items[k].id].chat_id \in DOMAIN chats
    /\ (last.op = "get_chat" /\ last.out.kind = "chat") => last.out.agent_id \in DOMAIN agents
    /\ last.op = "list_chats" =>
        \A k \in 1..Len(last.out.items) : last.out.items[k].agent_id \in DOMAIN agents

\* C25: update_chat_counters on a chat id that names no chat, or with a
\* wallet that is not the chat's owner, raises nothing and changes no
\* collection; called by the owner it sets message_count and last_message
\* of that chat record and changes nothing else
C25_CountersFrame ==
    [][\A c \in KnownChats, w \in Wallets :
        UpdateChatCounters(c, w, 1, ShortText) =>
            /\ last'.out = NoneOut
            /\ UNCHANGED <<agents, messages, pointers, capsules, staking, earnings, preferences>>
            /\ Standing(chats, c, w) \in {"absent", "foreign"} => UNCHANGED chats
            /\ Standing(chats, c, w) = "owner" =>
                /\ DOMAIN chats' = DOMAIN chats
                /\ \A other \in DOMAIN chats \ {c} : chats'[other] = chats[other]
                /\ chats'[c] = [chats[c] EXCEPT !.message_count = 1, !.last_message = ShortText]]_vars

\* the owner has set the counters of a chat that holds no message
C25_Witness ==
    /\ last.op = "update_chat_counters"
    /\ last.pre = "owner"
    /\ chats[last.id].message_count = 1
    /\ chats[last.id].last_message = ShortText
    /\ messages = <<>>

(***************************************************************************)
(* SpecList: list_messages and list_chats over stores of a few records,    *)
(* with the scroll's page size either 1, so that a list spans several      *)
(* pages, or the code's 200                                                *)
(***************************************************************************)
PageSizes == {1, PAGE_LIMIT}
ListLimits == {1, 2, 3}

PagedCall(op, id, wallet, limit, page_limit, items, pages) ==
    [op |-> op, id |-> id, wallet |-> wallet, limit |-> limit, page_limit |-> page_limit,
     out |-> [kind |-> op, items |-> items, pages |-> pages]]

ListMessagesPaged(page_limit, c, w, limit) ==
    /\ LET got == list_messages_paged(page_limit, messages, c, w, limit)
       IN last' = PagedCall("list_messages", c, w, limit, page_limit, got.items, got.pages)
    /\ UNCHANGED <<agents, chats, messages, pointers, capsules, staking, earnings, ids, hist>>

ListChatsPaged(page_limit, a, w) ==
    /\ last' = PagedCall("list_chats", a, w, 0, page_limit,
                         list_chats_paged(page_limit, chats, a, w), 0)
    /\ UNCHANGED <<agents, chats, messages, pointers, capsules, staking, earnings, ids, hist>>

\* a read leaves the store as it is, so a read after a read sees nothing
\* that a read after a write does not: reads are explored after writes only
ListReads == {"list_messages", "list_chats"}

NextList ==
    /\ OneAtATime
    /\ \/ \E k \in ApiKeys, dn \in DisplayNames, m \in Models : CreateAgent("w1", Plain(k), dn, m)
       \/ \E a \in RealAgents, w \in Wallets, n \in ChatNames, ms \in MemorySizes, now \in Times :
            CreateChatAt(a, w, n, ms, FALSE, now)
       \/ \E c \in RealChats, w \in WalletArgs, now \in Times :
            AgentAddMessage(c, w, ShortText, now, TRUE)
       \/ \E pg \in PageSizes, c \in RealChats, w \in WalletArgs, limit \in ListLimits :
            /\ last.op \notin ListReads
            /\ ListMessagesPaged(pg, c, w, limit)
       \/ \E pg \in PageSizes, a \in RealAgents, w \in WalletArgs :
            /\ last.op \notin ListReads
            /\ ListChatsPaged(pg, a, w)

SpecList == Init /\ [][NextList]_vars

\* the stored messages of chat_id, of wallet when one is given
Matching(chat_id, wallet) ==
    {i \in DOMAIN messages : /\ messages[i].chat_id = chat_id
                             /\ wallet # NoWallet => messages[i].wallet = wallet}

\* C26: list_messages returns min(M, limit) distinct messages of the M that
\* match the chat and the wallet, none else, oldest first, and asks the store
\* for no page after the one that completes the limit or has no next cursor
C26_ListMessages ==
    last.op = "list_messages" =>
        LET items == last.out.items
            wanted == Min(Cardinality(Matching(last.id, last.wallet)), last.limit)
        IN /\ Len(items) = wanted
           /\ \A j, k \in 1..Len(items) : j # k => items[j].id # items[k].id
           /\ \A k \in 1..Len(items) : items[k].id \in Matching(last.id, last.wallet)
           /\ \A k \in 1..(Len(items) - 1) :
                messages[items[k].id].created_at <= messages[items[k + 1].id].created_at
           /\ last.out.pages >= 1
           /\ last.out.pages * last.page_limit >= wanted
           /\ last.out.pages > 1 => (last.out.pages - 1) * last.page_limit < wanted

\* two pages were scrolled and the later message of the scroll is the older
C26_Witness ==
    /\ last.op = "list_messages"
    /\ last.out.pages = 2
    /\ Len(last.out.items) = 2
    /\ last.out.items[1].id > last.out.items[2].id
    /\ last.out.items[1].timestamp < last.out.items[2].timestamp

\* the stored chats of agent_id, of wallet when one is given
MatchingChats(agent_id, wallet) ==
    {i \in DOMAIN chats : /\ chats[i].agent_id = agent_id
                          /\ wallet # NoWallet => chats[i].wallet = wallet}

\* C27: list_chats returns each chat record of the agent (and of the wallet
\* when one is given) once, whatever the number of pages, and no other
\* record, newest first
C27_ListChats ==
    last.op = "list_chats" =>
        LET items == last.out.items
        IN /\ {items[k].id : k \in 1..Len(items)} = MatchingChats(last.id, last.wallet)
           /\ Len(items) = Cardinality(MatchingChats(last.id, last.wallet))
           /\ \A k \in 1..(Len(items) - 1) :
                chats[items[k].id].timestamp >= chats[items[k + 1].id].timestamp

\* two chats from two pages, the newer one last in the scroll
C27_Witness ==
    /\ last.op = "list_chats"
    /\ last.page_limit = 1
    /\ Len(last.out.items) = 2
    /\ last.out.items[1].id > last.out.items[2].id
    /\ last.out.items[1].timestamp > last.out.items[2].timestamp

(***************************************************************************)
(* SpecShelf: browse_capsules and get_trending_capsules over a few         *)
(* capsules, with the fetch window either the code's or one of a capsule   *)
(* or two, so that a window leaves matching capsules out                   *)
(***************************************************************************)
FetchWindows == {[floor |-> FETCH_FLOOR, ceiling |-> FETCH_CEILING],
                 [floor |-> 1, ceiling |-> FETCH_CEILING],
                 [floor |-> 1, ceiling |-> 2]}
TrendingWindows == {[factor |-> TRENDING_FACTOR, ceiling |-> TRENDING_CEILING],
                    [factor |-> 1, ceiling |-> TRENDING_CEILING],
                    [factor |-> TRENDING_FACTOR, ceiling |-> 1]}
ShelfFilters == {[category |-> NoCategory, min_reputation |-> NoBound, max_price |-> NoBound],
                 [category |-> "Finance", min_reputation |-> NoBound, max_price |-> NoBound],
                 [category |-> NoCategory, min_reputation |-> 0, max_price |-> 1]}
ShelfPages == {[limit |-> 1, offset |-> 0], [limit |-> 1, offset |-> 1],
               [limit |-> 2, offset |-> 1], [limit |-> 1, offset |-> 2]}
ShelfSorts == SortKeys \cup {NoSortBy}

BrowseCall(op, win, f, sort_by, limit, offset, out) ==
    [op |-> op, id |-> 0, wallet |-> NoWallet, window |-> win, filters |-> f,
     sort_by |-> sort_by, limit |-> limit, offset |-> offset, out |-> out]

BrowseWindowed(win, f, sort_by, limit, offset) ==
    /\ last' = BrowseCall("browse_capsules", win, f, sort_by, limit, offset,
                          [kind |-> "capsules",
                           items |-> browse_capsules_windowed(win.floor, win.ceiling, capsules,
                                         f.category, f.min_reputation, f.max_price,
                                         sort_by, limit, offset)])
    /\ UNCHANGED <<agents, chats, messages, pointers, capsules, staking, earnings, ids, hist>>

\* three browse requests with no other request between them: the first page,
\* the second page, and the two pages asked for as one
BrowsePages(win, f, sort_by, limit) ==
    /\ LET page(lim, off) == browse_capsules_windowed(win.floor, win.ceiling, capsules,
                                 f.category, f.min_reputation, f.max_price, sort_by, lim, off)
       IN last' = BrowseCall("browse_pages", win, f, sort_by, limit, 0,
                             [kind |-> "pages", first |-> page(limit, 0),
                              second |-> page(limit, limit), both |-> page(2 * limit, 0)])
    /\ UNCHANGED <<agents, chats, messages, pointers, capsules, staking, earnings, ids, hist>>

TrendingWindowed(win, limit) ==
    /\ last' = [op |-> "get_trending_capsules", id |-> 0, wallet |-> NoWallet, window |-> win,
                limit |-> limit,
                out |-> [kind |-> "capsules",
                         items |-> get_trending_windowed(win.factor, win.ceiling, capsules, limit)]]
    /\ UNCHANGED <<agents, chats, messages, pointers, capsules, staking, earnings, ids, hist>>

\* a read leaves the store as it is, so a read after a read sees nothing
\* that a read after a write does not: reads are explored after writes only
ShelfReads == {"browse_capsules", "browse_pages", "get_trending_capsules"}

NextShelf ==
    /\ OneAtATime
    /\ \/ \E o \in Offers :
            /\ ids.capsules < MarketCapsules
            /\ CreateCapsuleAt("w1", o.name, o.price, o.category, o.now, TRUE)
       \/ \E cid \in RealCapsules :
            /\ \A i \in DOMAIN staking : staking[i].capsule_id < cid
            /\ CreateStaking(cid, "w2", 5)
       \/ \E cid \in RealCapsules :
            /\ \A c \in DOMAIN capsules : capsules[c].query_count = 0
            /\ QueryCapsule(cid, "w2", NoSignature, 0, TRUE)
       \/ \E win \in FetchWindows, f \in ShelfFilters, by \in ShelfSorts, pg \in ShelfPages :
            /\ last.op \notin ShelfReads
            /\ BrowseWindowed(win, f, by, pg.limit, pg.offset)
       \/ \E win \in FetchWindows, f \in ShelfFilters, by \in ShelfSorts :
            /\ last.op \notin ShelfReads
            /\ BrowsePages(win, f, by, 1)
       \/ \E win \in TrendingWindows, lim \in Limits :
            /\ last.op \notin ShelfReads
            /\ TrendingWindowed(win, lim)

SpecShelf == Init /\ [][NextShelf]_vars

\* the stored capsules a browse with filters f is about
ShelfMatch(f) ==
    {i \in DOMAIN capsules :
        /\ capsules[i].stake_amount > 0
        /\ f.category # NoCategory => capsules[i].category = f.category
        /\ f.min_reputation # NoBound => capsules[i].reputation >= f.min_reputation
        /\ f.max_price # NoBound => capsules[i].price_per_query <= f.max_price}

\* the first n of set in scroll order
FirstOf(set, n) == {i \in set : Cardinality({j \in set : j < i}) < n}

\* d comes before c when sorted by the key; equal keys keep the scroll order
ComesBefore(d, c, sort_by) ==
    LET by == IF sort_by = NoSortBy THEN "popular" ELSE sort_by
        kd == SortKey(capsules[d], by)
        kc == SortKey(capsules[c], by)
    IN \/ IF by = "price_low" THEN kd < kc ELSE kd > kc
       \/ kd = kc /\ d < c

\* the place of c among the capsules of set sorted by the key
Place(c, set, sort_by) == 1 + Cardinality({d \in set : ComesBefore(d, c, sort_by)})

\* items are the capsules at places from + 1, from + 2, ... of set
SliceOf(items, set, sort_by, from) ==
    \A k \in 1..Len(items) :
        /\ items[k].id \in set
        /\ items[k] = CapsuleView(items[k].id, capsules[items[k].id])
        /\ Place(items[k].id, set, sort_by) = from + k

\* C28: browse_capsules returns the slice [offset, offset+limit) of the first
\* min(max(offset+limit, 50), 1000) capsules, in scroll order, that are staked
\* and pass the category, min_reputation and max_price filters, sorted by the
\* requested key: at most limit capsules, none when offset is at or beyond the
\* fetched window
C28_BrowseSlice ==
    last.op = "browse_capsules" =>
        LET items == last.out.items
            fetched == Min(Max(last.offset + last.limit, last.window.floor), last.window.ceiling)
            window == FirstOf(ShelfMatch(last.filters), fetched)
        IN /\ Len(items) = Max(0, Min(last.limit, Cardinality(window) - last.offset))
           /\ SliceOf(items, window, last.sort_by, last.offset)
           /\ Len(items) <= last.limit
           /\ last.offset >= fetched => items = <<>>

\* the fetched window left a matching capsule out that sorts before the
\* first capsule returned
C28_Witness ==
    /\ last.op = "browse_capsules"
    /\ Len(last.out.items) >= 1
    /\ \E c \in ShelfMatch(last.filters) :
        /\ c > last.out.items[1].id
        /\ ComesBefore(c, last.out.items[1].id, last.sort_by)

\* the offset is at the end of a fetched window that left matching capsules out
C28_WitnessBeyond ==
    /\ last.op = "browse_capsules"
    /\ last.offset >= last.window.ceiling
    /\ Cardinality(ShelfMatch(last.filters)) > last.offset

\* C29: on an unchanged store the pages browse(L, 0) and browse(L, L) share no
\* capsule, and one after the other they are browse(2L, 0) and the first
\* capsules of all matching capsules sorted by the key, however many match
C29_PagesConsistent ==
    last.op = "browse_pages" =>
        LET first == last.out.first
            second == last.out.second
        IN /\ \A j \in 1..Len(first), k \in 1..Len(second) : first[j].id # second[k].id
           /\ first \o second = last.out.both
           /\ SliceOf(first \o second, ShelfMatch(last.filters), last.sort_by, 0)

\* the same with the code's window of at least 50 capsules, of which the store
\* here never holds more than a few
C29_PagesConsistentInWindow ==
    (last.op = "browse_pages" /\ last.window.floor = FETCH_FLOOR) =>
        LET first == last.out.first
            second == last.out.second
        IN /\ \A j \in 1..Len(first), k \in 1..Len(second) : first[j].id # second[k].id
           /\ first \o second = last.out.both
           /\ SliceOf(first \o second, ShelfMatch(last.filters), last.sort_by, 0)

\* C30: get_trending_capsules returns at most limit capsules, all staked, by
\* non-increasing query_count, taken from the first min(limit*5, 200) staked
\* capsules in scroll order
C30_Trending ==
    last.op = "get_trending_capsules" =>
        LET items == last.out.items
            window == FirstOf(Staked(capsules),
                              Min(last.limit * last.window.factor, last.window.ceiling))
        IN /\ Len(items) <= last.limit
           /\ Len(items) = Min(last.limit, Cardinality(window))
           /\ \A k \in 1..Len(items) : /\ items[k].id \in window
                                      /\ capsules[items[k].id].stake_amount > 0
           /\ \A k \in 1..(Len(items) - 1) : items[k].query_count >= items[k + 1].query_count
           /\ SliceOf(items, window, "popular", 0)

\* a staked capsule outside the window has more queries than the one returned
C30_Witness ==
    /\ last.op = "get_trending_capsules"
    /\ Len(last.out.items) >= 1
    /\ \E c \in DOMAIN capsules :
        /\ capsules[c].stake_amount > 0
        /\ c > last.out.items[1].id
        /\ capsules[c].query_count > last.out.items[1].query_count

(***************************************************************************)
(* SpecSearch: search_capsules over capsules with names and descriptions   *)
(* in both cases, staked or not, with queries that need trimming and       *)
(* lower-casing                                                            *)
(***************************************************************************)
SearchOffers == {[name |-> "cap1", description |-> NoDescription, category |-> "Gaming"],
                 [name |-> "Cap2", description |-> NoDescription, category |-> "art"],
                 [name |-> "cap1", description |-> "A p", category |-> "Finance"],
                 [name |-> "cap1", description |-> NoDescription, category |-> NoCategory]}
\* how many records get_categories scans: the code's 1000, or one
ScanLimits == {CATEGORY_SCAN, 1}
SearchQueries == {<<>>, <<" ", " ">>, <<" ", "A", " ", "P">>, <<"p", "2", " ">>,
                  <<"a", " ", "p">>, <<"C">>, <<"x">>}
SearchLimits == {1, 2, 3}

SearchQuery(query, limit) ==
    /\ last' = [op |-> "search_capsules", id |-> 0, wallet |-> NoWallet, query |-> query,
                limit |-> limit,
                out |-> [kind |-> "capsules", items |-> search_capsules(capsules, query, limit)]]
    /\ UNCHANGED <<agents, chats, messages, pointers, capsules, staking, earnings, ids, hist>>

GetCategories(scan_limit) ==
    /\ last' = [op |-> "get_categories", id |-> 0, wallet |-> NoWallet, scan_limit |-> scan_limit,
                out |-> [kind |-> "categories",
                         items |-> get_categories_scanned(scan_limit, capsules)]]
    /\ UNCHANGED <<agents, chats, messages, pointers, capsules, staking, earnings, ids, hist>>

SearchReads == {"search_capsules", "get_categories"}

NextSearch ==
    /\ OneAtATime
    /\ \/ \E o \in SearchOffers :
            /\ ids.capsules < MarketCapsules
            /\ CreateCapsuleWith("w1", o.name, o.description, 1, o.category, NoMetadata, 0, TRUE)
       \/ \E n \in ScanLimits :
            /\ last.op \notin SearchReads
            /\ GetCategories(n)
       \/ \E cid \in RealCapsules :
            /\ \A i \in DOMAIN staking : staking[i].capsule_id < cid
            /\ CreateStaking(cid, "w2", 5)
       \/ \E q \in SearchQueries, lim \in SearchLimits :
            /\ last.op \notin SearchReads
            /\ SearchQuery(q, lim)

SpecSearch == Init /\ [][NextSearch]_vars

\* query without its leading and trailing blanks, in lower case
Trimmed(query) ==
    LET inked == {i \in 1..Len(query) : query[i] # " "}
    IN IF inked = {} THEN <<>>
       ELSE LET from == CHOOSE i \in inked : \A j \in inked : i <= j
                to == CHOOSE i \in inked : \A j \in inked : i >= j
            IN [k \in 1..(to - from + 1) |->
                  LET ch == query[from + k - 1]
                  IN CASE ch = "A" -> "a" [] ch = "C" -> "c" [] ch = "P" -> "p" [] OTHER -> ch]

\* q occurs in the lower-cased text
Occurs(q, text) ==
    \E from \in 0..(Len(text) - Len(q)) :
        \A k \in 1..Len(q) : q[k] = Lower(Letters(text))[from + k]

\* the staked capsules a search for query keeps
Hits(query) ==
    {i \in DOMAIN capsules :
        /\ capsules[i].stake_amount > 0
        /\ \/ Trimmed(query) = <<>>
           \/ Occurs(Trimmed(query), capsules[i].name)
           \/ Occurs(Trimmed(query), capsules[i].description)}

\* C31: search_capsules returns at most limit capsules, each staked and each
\* with the trimmed, lower-cased query inside its lower-cased name or
\* description, in scroll order; with an empty or blank query these are the
\* first limit staked capsules
C31_Search ==
    last.op = "search_capsules" =>
        LET items == last.out.items
        IN /\ Len(items) <= last.limit
           /\ Len(items) = Min(last.limit, Cardinality(Hits(last.query)))
           /\ \A k \in 1..Len(items) :
                /\ items[k].id \in Hits(last.query)
                /\ items[k] = CapsuleView(items[k].id, capsules[items[k].id])
                /\ Cardinality({i \in Hits(last.query) : i < items[k].id}) = k - 1

\* a query with a blank and capitals found a capsule by its description
\* only, after a staked capsule that does not match
C31_Witness ==
    /\ last.op = "search_capsules"
    /\ last.query = <<" ", "A", " ", "P">>
    /\ Len(last.out.items) >= 1
    /\ ~Occurs(Trimmed(last.query), last.out.items[1].name)
    /\ \E c \in DOMAIN capsules : /\ c < last.out.items[1].id
                                  /\ capsules[c].stake_amount > 0
                                  /\ c \notin Hits(last.query)

\* the place of a category string in the order of sorted()
PlaceOf(cat) == CHOOSE k \in 1..Len(SortedStrings) : SortedStrings[k] = cat

\* the non-empty categories of the first n capsule records
ScannedCategories(n) ==
    {capsules[i].category : i \in {j \in DOMAIN capsules :
                                      /\ Cardinality({h \in DOMAIN capsules : h < j}) < n
                                      /\ capsules[j].category # NoCategory}}

\* C32: get_categories returns the distinct non-empty categories of the first
\* (up to 1000) capsule records, staked or not, once each and ascending, and
\* the fixed default list exactly when no scanned capsule has a category
C32_Categories ==
    last.op = "get_categories" =>
        LET items == last.out.items
            cats == ScannedCategories(last.scan_limit)
        IN /\ cats = {} <=> items = <<"Finance", "Gaming", "Health", "Technology", "Education">>
           /\ cats # {} =>
                /\ {items[k] : k \in 1..Len(items)} = cats
                /\ Len(items) = Cardinality(cats)
                /\ \A k \in 1..(Len(items) - 1) : PlaceOf(items[k]) < PlaceOf(items[k + 1])

\* two categories of capsules that are not staked, listed in the other
\* order than the capsules were created in, one capsule having no category
C32_Witness ==
    /\ last.op = "get_categories"
    /\ Len(last.out.items) = 2
    /\ \A c \in DOMAIN capsules : capsules[c].stake_amount = 0
    /\ \E c, d \in DOMAIN capsules : /\ c < d
                                     /\ capsules[c].category = last.out.items[2]
                                     /\ capsules[d].category = last.out.items[1]
    /\ \E c \in DOMAIN capsules : capsules[c].category = NoCategory

\* the scan of one record left the category of a later capsule out
C32_WitnessScan ==
    /\ last.op = "get_categories"
    /\ last.scan_limit = 1
    /\ Len(last.out.items) = 1
    /\ \E c \in DOMAIN capsules : capsules[c].category \notin {NoCategory, last.out.items[1]}

(***************************************************************************)
(* SpecPatch: update_capsule with patches of every field, on capsules that *)
(* are staked and queried                                                  *)
(***************************************************************************)
PatchCapsules == 2
CapsulePatches == {CapsulePatch("cap2", NoPatch, NoPatch, 0, NoPatch),
                   CapsulePatch(NoPatch, "A p", NoPatch, 0, NoPatch),
                   CapsulePatch(NoPatch, NoPatch, "Gaming", 0, NoPatch),
                   CapsulePatch(NoPatch, NoPatch, NoPatch, 2, NoPatch),
                   CapsulePatch(NoPatch, NoPatch, NoPatch, 0, "md2"),
                   CapsulePatch(NoPatch, NoPatch, NoPatch, 2, "md2")}

UpdateCapsulePatch(cid, w, patch, embedOk) ==
    /\ LET r == update_capsule_patch(capsules, cid, w, patch, embedOk)
       IN /\ capsules' = r.capsules
          /\ last' = [op |-> "update_capsule", id |-> cid, wallet |-> w,
                      pre |-> CapsuleStanding(capsules, cid, w), patch |-> patch,
                      embedOk |-> embedOk, out |-> r.out]
    /\ UNCHANGED <<agents, chats, messages, pointers, hist, staking, earnings, ids>>

NextPatch ==
    /\ OneAtATime
    /\ \/ /\ ids.capsules < PatchCapsules
          /\ CreateCapsuleWith("w1", "cap1", NoDescription, 1, "Finance", NoMetadata, 0, TRUE)
       \/ \E cid \in RealCapsules :
            /\ capsules[cid].stake_amount = 0
            /\ CreateStaking(cid, "w2", 5)
       \/ \E cid \in RealCapsules :
            /\ \A c \in DOMAIN capsules : capsules[c].query_count = 0
            /\ QueryCapsule(cid, "w2", NoSignature, 0, TRUE)
       \/ \E cid \in RealCapsules, patch \in CapsulePatches, ok \in BOOLEAN :
            UpdateCapsulePatch(cid, "w1", patch, ok)

SpecPatch == Init /\ [][NextPatch]_vars

\* this step is an update_capsule by the capsule's owner
OwnerPatched == last'.op = "update_capsule" /\ last'.pre = "owner"

\* the fields an update leaves alone whatever the patch
KeptByUpdate(c) ==
    /\ capsules'[c].stake_amount = capsules[c].stake_amount
    /\ capsules'[c].is_listed = capsules[c].is_listed
    /\ capsules'[c].query_count = capsules[c].query_count
    /\ capsules'[c].creator_wallet = capsules[c].creator_wallet
    /\ capsules'[c].category = capsules[c].category
    /\ \A d \in DOMAIN capsules : d # c => capsules'[d] = capsules[d]

PatchAgents == 2
AgentPatches == {AgentPatch(dn, m, k) : dn \in DisplayPatches, m \in ModelPatches,
                                        k \in {NoPatch, "sk-2"}}

UpdateAgentPatch(a, w, patch) ==
    /\ LET r == update_agent_patch(agents, a, w, patch)
       IN /\ agents' = r.agents
          /\ last' = [op |-> "update_agent", id |-> a, wallet |-> w,
                      pre |-> Standing(agents, a, w), patch |-> patch, out |-> r.out]
    /\ UNCHANGED <<chats, messages, pointers, hist, capsules, staking, earnings, ids>>

NextAgents ==
    /\ OneAtATime
    /\ \/ \E w \in Wallets, k \in ApiKeys, dn \in DisplayNames, m \in Models :
            /\ ids.agents < PatchAgents
            /\ CreateAgentRecord(w, Plain(k), dn, m)
       \/ \E a \in KnownAgents, w \in WalletArgs : GetAgent(a, w)
       \/ \E a \in KnownAgents, w \in Wallets, patch \in AgentPatches : UpdateAgentPatch(a, w, patch)

SpecAgents == Init /\ [][NextAgents]_vars

\* C34: update_agent by the owner changes no attribute whose patch field is
\* null, sets display_name and model to the non-null fields of the patch,
\* and rewrites the stored encrypted key only when the key is part of the
\* patch; on an absent or not-owned agent it fails and changes nothing
C34_UpdateAgentFrame ==
    [][last'.op = "update_agent" =>
         LET a == last'.id
             patch == last'.patch
         IN IF last'.pre = "owner"
            THEN /\ last'.out.kind = "agent"
                 /\ DOMAIN agents' = DOMAIN agents
                 /\ \A b \in DOMAIN agents : b # a => agents'[b] = agents[b]
                 /\ agents'[a].display_name = IF patch.display_name # NoPatch
                                              THEN patch.display_name ELSE agents[a].display_name
                 /\ agents'[a].model = IF patch.model # NoPatch
                                       THEN patch.model ELSE agents[a].model
                 /\ agents'[a].api_key_encrypted # agents[a].api_key_encrypted
                        => patch.api_key # NoPatch
                 /\ agents'[a].wallet = agents[a].wallet
                 /\ agents'[a].name = agents[a].name
                 /\ agents'[a].platform = agents[a].platform
            ELSE /\ last'.out.kind = "raise"
                 /\ agents' = agents]_vars

\* the owner patched the display name alone: the model and the key are the
\* stored ones, and so is the other agent
C34_Witness ==
    /\ last.op = "update_agent"
    /\ last.pre = "owner"
    /\ last.patch = AgentPatch("d2", NoPatch, NoPatch)
    /\ agents[last.id].display_name = "d2"
    /\ agents[last.id].model = "m1"
    /\ agents[last.id].api_key_encrypted = encrypt_secret(Plain("sk-1"))
    /\ \E b \in DOMAIN agents : b # last.id /\ agents[b].display_name = "d1"

\* the owner's patch carried a key and the stored key stayed as it was
C34_WitnessKeyIgnored ==
    /\ last.op = "update_agent"
    /\ last.pre = "owner"
    /\ last.patch.api_key = "sk-2"
    /\ agents[last.id].api_key_encrypted = encrypt_secret(Plain("sk-1"))

(***************************************************************************)
(* SpecEnsure: startup against a store that is empty, or was left by an    *)
(* earlier run with some collections and a capsule in it, and requests     *)
(* once the store client is there                                          *)
(***************************************************************************)
\* the collections the store holds at the start
OldStores == {{}, Required \ {"mem0_pointers"}, {"capsules", "staking"}}
OldCapsule == [creator_wallet |-> "w1", name |-> "cap1", description |-> NoDescription,
               category |-> "Finance", price_per_query |-> 1, stake_amount |-> 0,
               is_listed |-> FALSE, reputation |-> 0, query_count |-> 0, rating |-> 0,
               created_at |-> 0, metadata |-> NoMetadata,
               vector |-> embed_text("cap1", NoDescription, "Finance")]
EnsureCapsules == 2

InitEnsure ==
    /\ collections \in OldStores
    /\ capsules = IF "capsules" \in collections THEN <<OldCapsule>> ELSE <<>>
    /\ agents = <<>>
    /\ chats = <<>>
    /\ messages = <<>>
    /\ pointers = <<>>
    /\ staking = <<>>
    /\ earnings = <<>>
    /\ ids = [agents |-> 0, chats |-> 0, messages |-> 0, pointers |-> 0,
              capsules |-> Len(capsules), staking |-> 0, earnings |-> 0]
    /\ hist = [c \in ChatIds |-> NoRun]
    /\ last = Call("init", 0, NoWallet, "absent", NoneOut)
    /\ preferences = <<>>
    /\ calls = [p \in Procs |-> IdleCall]
    /\ served = NothingServed
    /\ singleton = NoSingleton

NextEnsure ==
    \/ \E outcome \in InitOutcomes : InitQdrantService(outcome)
    \/ /\ construct("CapsuleService", singleton, TRUE) = Done
       /\ OneAtATime
       /\ \/ /\ ids.capsules < EnsureCapsules
             /\ CreateCapsuleAt("w1", "cap2", 2, "Gaming", 1, TRUE)
          \/ \E cid \in RealCapsules : CreateStaking(cid, "w2", 5)
    \/ /\ construct("AgentService", singleton, TRUE) = Done
       /\ OneAtATime
       /\ CreateAgent("w1", Plain("sk-1"), "d1", "m1")

SpecEnsure == InitEnsure /\ [][NextEnsure]_vars

\* the records of every collection
Records == <<agents, chats, messages, preferences, capsules, staking, earnings, pointers>>

\* C35: after a successful init_qdrant_service the eight collections agents,
\* chats, messages, preferences, capsules, staking, earnings and
\* mem0_pointers exist; no init creates a collection that existed, and every
\* collection keeps its records; on a store that has all eight an init
\* changes nothing
C35_Bootstrap ==
    [][last'.op = "init_qdrant_service" =>
         /\ last'.out = Done =>
              collections' = {"agents", "chats", "messages", "preferences", "capsules",
                              "staking", "earnings", "mem0_pointers"}
         /\ last'.created \cap collections = {}
         /\ collections' = collections \cup last'.created
         /\ Records' = Records
         /\ Cardinality(collections) = 8 =>
              /\ last'.created = {}
              /\ collections' = collections
              /\ last'.out.kind = "raise" => last'.store_calls < 2]_vars

\* a startup created the collections that were missing around a capsule
\* collection with records, and a later startup found nothing to create
C35_Witness ==
    /\ last.op = "init_qdrant_service"
    /\ last.out = Done
    /\ last.created = {}
    /\ Len(capsules) = 2
    /\ staking # <<>>
    /\ agents # <<>>

\* a startup created the missing collections and the old capsule is there
C35_WitnessCreated ==
    /\ last.op = "init_qdrant_service"
    /\ last.out = Done
    /\ last.created = Required \ {"capsules", "staking"}
    /\ capsules = <<OldCapsule>>

(***************************************************************************)
(* SpecScan: the pagination loops, one store call per step, over           *)
(* collections that no request is writing while a loop runs                *)
(***************************************************************************)
ScanRecords == 2
ScanLoops == {"get_user_agents", "list_chats", "list_messages", "get_user_capsules", "get_earnings", "get_staking_info"}
LoopLimits == {1, 2, LIST_DEFAULT_LIMIT}

\* the records the filter of a loop selects
ScanMatch(loop, id, wallet) ==
    CASE loop = "get_user_agents" ->
           {i \in DOMAIN agents : wallet # NoWallet => agents[i].wallet = wallet}
      [] loop = "list_chats" ->
           {i \in DOMAIN chats : /\ chats[i].agent_id = id
                                 /\ (wallet # NoWallet => chats[i].wallet = wallet)}
      [] loop = "list_messages" -> MessageMatch(messages, id, wallet)
      [] loop = "get_user_capsules" ->
           {i \in DOMAIN capsules : wallet # NoWallet => capsules[i].creator_wallet = wallet}
      [] loop = "get_earnings" -> {i \in DOMAIN earnings : earnings[i].wallet = wallet}
      [] loop = "get_staking_info" -> {i \in DOMAIN staking : staking[i].staker_wallet = wallet}

\* limit=...: what one call asks the store for
ScanRequest(call) ==
    IF call.loop = "list_messages" THEN Min(call.page_limit, call.limit - Len(call.out))
    ELSE call.page_limit

\* the loop that leaves after its first page
ScanBreaksAlways(call, next, out) == TRUE

\* if not next_offset [or len(out) >= limit]: break
ScanBreaks(call, next, out) ==
    \/ next = NoOffset
    \/ call.loop = "list_messages" /\ Len(out) >= call.limit

\* out = [], offset = None
ScanStart(p, loop, id, wallet, limit, page_limit) ==
    /\ Idle(p)
    /\ Enter(p, [op |-> "scan", pc |-> "scroll", loop |-> loop, id |-> id, wallet |-> wallet,
                 limit |-> limit, page_limit |-> page_limit, offset |-> NoOffset,
                 out |-> <<>>, asked |-> <<>>, cursors |-> <<>>])
    /\ UNCHANGED <<agents, chats, messages, pointers, capsules, staking, earnings, ids, hist,
                   last, preferences, served, singleton, collections>>

\* one turn of while True
ScanPage(p) ==
    /\ At(p, "scan", "scroll")
    /\ LET call == calls[p]
           page == query_by_filter(ScanMatch(call.loop, call.id, call.wallet),
                                   ScanRequest(call), call.offset)
           out == call.out \o page.points
       IN calls' = [calls EXCEPT ![p] =
                      [call EXCEPT !.out = out,
                                   !.asked = Append(@, ScanRequest(call)),
                                   !.cursors = Append(@, page.next),
                                   !.offset = IF ScanBreaks(call, page.next, out) THEN @ ELSE page.next,
                                   !.pc = IF ScanBreaks(call, page.next, out) THEN "return" ELSE @]]
    /\ UNCHANGED <<agents, chats, messages, pointers, capsules, staking, earnings, ids, hist,
                   last, preferences, served, singleton, collections>>

\* the loop is left: the records collected are what the method goes on with
ScanReturn(p) ==
    /\ At(p, "scan", "return")
    /\ last' = [op |-> calls[p].loop, id |-> calls[p].id, wallet |-> calls[p].wallet,
                limit |-> calls[p].limit, page_limit |-> calls[p].page_limit,
                out |-> [kind |-> "scan", items |-> calls[p].out, asked |-> calls[p].asked,
                         cursors |-> calls[p].cursors]]
    /\ Leave(p)
    /\ UNCHANGED <<agents, chats, messages, pointers, capsules, staking, earnings, ids, hist,
                   preferences, served, singleton, collections>>

NoScan == \A p \in Procs : Idle(p)

\* a loop reads one collection: the agent, chat and message records are
\* explored apart from the capsule, staking and earning records, and the
\* wallets vary among the agents and among the stakes
ScanWrites ==
    /\ NoScan
    /\ OneAtATime
    /\ \/ /\ ids.capsules = 0
          /\ \/ \E w \in Wallets :
                  ids.agents < ScanRecords /\ CreateAgentRecord(w, Plain("sk-1"), "d1", "m1")
             \/ ids.agents > 0 /\ CreateChatAt(1, "w1", "c1", "Small", FALSE, 0)
             \/ ids.chats > 0 /\ AgentAddMessage(1, "w1", ShortText, 0, TRUE)
       \/ /\ ids.agents = 0
          /\ \/ ids.capsules < ScanRecords /\ CreateCapsuleAt("w1", "cap1", 1, "Finance", 0, TRUE)
             \/ \E w \in Wallets :
                  ids.capsules > 0 /\ ids.staking < ScanRecords /\ CreateStaking(1, w, 5)
             \/ ids.capsules > 0 /\ QueryCapsule(1, "w2", "sigOk", 2, TRUE)

\* the loops write nothing, so two of them running at once take the turns
\* each takes alone: one loop runs at a time
NextScan ==
    \/ ScanWrites
    \/ \E p \in Procs, loop \in ScanLoops, w \in WalletArgs, pg \in PageSizes :
         /\ NoScan
         /\ last.op \notin ScanLoops
         /\ loop \in {"get_earnings", "get_staking_info"} => w # NoWallet
         /\ \E id \in (IF loop = "list_chats" THEN RealAgents
                       ELSE IF loop = "list_messages" THEN RealChats ELSE {0}) :
              \E limit \in (IF loop = "list_messages" THEN LoopLimits ELSE {0}) :
                ScanStart(p, loop, id, w, limit, pg)
    \/ \E p \in Procs : ScanPage(p)
    \/ \E p \in Procs : ScanReturn(p)

SpecScan == Init /\ [][NextScan]_vars

\* a loop that is running is given its next turn: the event loop resumes
\* every coroutine whose store call has returned
SpecScanFair ==
    /\ SpecScan
    /\ \A p \in Procs : WF_vars(ScanPage(p)) /\ WF_vars(ScanReturn(p))

Scanned(call) == {call.out[k] : k \in 1..Len(call.out)}

\* what holds of a loop at every turn and when it is left
ScanSound(call, left) ==
    LET match == ScanMatch(call.loop, call.id, call.wallet)
        pages == Len(call.asked)
    IN /\ \A k \in 1..pages : call.asked[k] <= PAGE_LIMIT /\ call.asked[k] <= call.page_limit
       /\ \A j, k \in 1..Len(call.out) : j # k => call.out[j] # call.out[k]
       /\ Scanned(call) \subseteq match
       /\ \A k \in 1..(pages - 1) : call.cursors[k] # NoOffset
       /\ left =>
            /\ pages >= 1
            /\ IF call.loop = "list_messages"
               THEN /\ Len(call.out) = Min(Cardinality(match), call.limit)
                    /\ call.cursors[pages] = NoOffset \/ Len(call.out) >= call.limit
               ELSE /\ Scanned(call) = match
                    /\ call.cursors[pages] = NoOffset

\* C36: over collections that no request is modifying, each of the six
\* pagination loops asks the store for at most 200 records a page, goes on
\* only while the store hands back a next cursor, is left after finitely
\* many pages, and has then collected every matching record exactly once
\* (the first limit of them for list_messages)
C36_Pagination ==
    /\ [](\A p \in Procs : calls[p].op = "scan" => ScanSound(calls[p], calls[p].pc = "return"))
    /\ \A p \in Procs : (calls[p].op = "scan") ~> Idle(p)

\* a loop was left after two pages of one record each
C36_Witness ==
    /\ last.op \in ScanLoops
    /\ last.page_limit = 1
    /\ Len(last.out.asked) = 2
    /\ Len(last.out.items) = 2
    /\ last.out.cursors[1] # NoOffset
    /\ last.out.cursors[2] = NoOffset

(***************************************************************************)
(* SpecPrefs: the preferences routes, one request at a time                *)
(***************************************************************************)
PrefValues == {"on", "off"}
\* preferences.model_dump(exclude_none=True): the keys the request sets
PrefInputs == {np \in [PrefKeys -> PrefValues \cup {Unset}] : np["lang"] # "off"}
UNAUTHORIZED == "Wallet address required"

PrefCall(op, wallet, new_prefs, now, after, out) ==
    [op |-> op, wallet |-> wallet, new_prefs |-> new_prefs, now |-> now, after |-> after,
     out |-> out]

\* POST /preferences/
UpdatePreferences(w, new_prefs, now) ==
    /\ IF w = NoWallet
       THEN /\ last' = PrefCall("upsert_preferences", w, new_prefs, now, last.op,
                                Raise(UNAUTHORIZED))
            /\ UNCHANGED preferences
       ELSE LET r == upsert_preferences(preferences, w, new_prefs, now)
            IN /\ preferences' = r.preferences
               /\ last' = PrefCall("upsert_preferences", w, new_prefs, now, last.op,
                                   [kind |-> "prefs", prefs |-> r.out])
    /\ UNCHANGED <<agents, chats, messages, pointers, capsules, staking, earnings, ids, hist,
                   calls, served, singleton, collections>>

\* DELETE /preferences/
ClearPreferences(w) ==
    /\ IF w = NoWallet
       THEN /\ last' = PrefCall("clear_preferences", w, NoPrefs, 0, last.op, Raise(UNAUTHORIZED))
            /\ UNCHANGED preferences
       ELSE /\ preferences' = clear_preferences(preferences, w)
            /\ last' = PrefCall("clear_preferences", w, NoPrefs, 0, last.op, Done)
    /\ UNCHANGED <<agents, chats, messages, pointers, capsules, staking, earnings, ids, hist,
                   calls, served, singleton, collections>>

\* GET /preferences/; after holds the request served before it and its wallet
GetPreferences(w) ==
    /\ last' = PrefCall("get_preferences", w, NoPrefs, 0, <<last.op, last.wallet>>,
                        IF w = NoWallet THEN Raise(UNAUTHORIZED)
                        ELSE [kind |-> "prefs", prefs |-> get_preferences(preferences, w)])
    /\ UNCHANGED <<agents, chats, messages, pointers, capsules, staking, earnings, ids, hist,
                   preferences, calls, served, singleton, collections>>

NextPrefs ==
    \/ \E w \in WalletArgs, np \in PrefInputs, now \in Times : UpdatePreferences(w, np, now)
    \/ \E w \in WalletArgs : ClearPreferences(w)
    \/ \E w \in WalletArgs : last.op # "get_preferences" /\ GetPreferences(w)

SpecPrefs == Init /\ [][NextPrefs]_vars

\* C37: an upsert_preferences(wallet, P) call stores and returns the map
\* stored for the wallet before it with the keys of P overridden by P and
\* the other keys as they were, leaves created_at as it was when the record
\* existed, and leaves every other preferences record as it was; a
\* get_preferences that follows a clear_preferences of the same wallet
\* returns the empty map
C37_Preferences ==
    [][/\ (last'.op = "upsert_preferences" /\ last'.wallet # NoWallet) =>
            LET w == last'.wallet
                before == get_preferences(preferences, w)
                stored == preferences'[PrefId(w)]
            IN /\ last'.out.kind = "prefs"
               /\ \A k \in PrefKeys :
                    /\ last'.new_prefs[k] # Unset => stored.preferences[k] = last'.new_prefs[k]
                    /\ last'.new_prefs[k] = Unset => stored.preferences[k] = before[k]
               /\ last'.out.prefs = stored.preferences
               /\ PrefId(w) \in DOMAIN preferences =>
                    stored.created_at = preferences[PrefId(w)].created_at
               /\ DOMAIN preferences' = DOMAIN preferences \cup {PrefId(w)}
               /\ \A i \in DOMAIN preferences \ {PrefId(w)} : preferences'[i] = preferences[i]
       /\ (/\ last'.op = "get_preferences"
           /\ last'.after = <<"clear_preferences", last'.wallet>>
           /\ last'.wallet # NoWallet) =>
            last'.out = [kind |-> "prefs", prefs |-> NoPrefs]]_vars

\* a second upsert of one wallet overrode one key and kept the other, at a
\* later time than the first, next to the record of another wallet
C37_Witness ==
    /\ last.op = "upsert_preferences"
    /\ last.wallet = "w1"
    /\ last.now = 1
    /\ last.new_prefs = [k \in PrefKeys |-> IF k = "theme" THEN "off" ELSE Unset]
    /\ last.out.kind = "prefs"
    /\ last.out.prefs = [k \in PrefKeys |-> IF k = "theme" THEN "off" ELSE "on"]
    /\ preferences[PrefId("w1")].created_at = 0
    /\ preferences[PrefId("w1")].updated_at = 1
    /\ PrefId("w2") \in DOMAIN preferences

\* a wallet with stored preferences cleared them and read the empty map
C37_WitnessCleared ==
    /\ last.op = "get_preferences"
    /\ last.after = <<"clear_preferences", "w1">>
    /\ last.wallet = "w1"
    /\ last.out = [kind |-> "prefs", prefs |-> NoPrefs]
    /\ PrefId("w2") \in DOMAIN preferences

\* what C38 says of a step that is the add_message call last' records
AddMessageGuarded ==
    LET c == last'.id
        w == last'.wallet
    IN /\ (c \notin DOMAIN chats \/ chats[c].wallet # w) =>
            /\ last'.out.kind = "raise"
            /\ UNCHANGED <<agents, chats, messages, pointers, capsules, staking, earnings>>
       /\ last'.out = Raise("embedding") => UNCHANGED <<chats, messages>>
       /\ \A m \in DOMAIN messages' \ DOMAIN messages :
            /\ messages'[m].chat_id = c
            /\ messages'[m].agent_id = chats[c].agent_id
            /\ messages'[m].wallet = chats[c].wallet

\* C38: AgentService.add_message raises and writes nothing when the chat is
\* absent or not owned by the calling wallet, writes no message and leaves
\* the chat's counters alone when the embedding fails, and every message it
\* stores carries the agent_id and the wallet of its chat
C38_AddMessageGuarded ==
    [][last'.op = "add_message" => AddMessageGuarded]_vars

\* the same of the calls that supply a wallet
C38_AddMessageByWallet ==
    [][(last'.op = "add_message" /\ last'.wallet # NoWallet) => AddMessageGuarded]_vars

\* a call with no wallet stored a message in a chat that has an owner
C38_WitnessNoWallet ==
    /\ last.op = "add_message"
    /\ last.wallet = NoWallet
    /\ last.out.kind = "message"
    /\ messages[last.out.id].wallet = NoWallet
    /\ last.id \in DOMAIN chats
    /\ chats[last.id].wallet \in Wallets
    /\ chats[last.id].message_count >= 1

(***************************************************************************)
(* SpecGone: add_message and update_chat one store call at a time, next to *)
(* a delete_chat by the owner of the chat.  Inside one event loop a        *)
(* handler is suspended only while it awaits the embedding (between        *)
(* AddMessageBegin and AddMessageStore); the other turns between store     *)
(* calls are taken when the requests are served by different workers.      *)
(***************************************************************************)
Writers == Procs \ {Deleter}
NoAgent == 0

\* payload = (rec.payload or {}) if rec else {}: a payload .get() finds
\* nothing in
EmptyChat ==
    [agent_id |-> NoAgent, wallet |-> NoWallet, name |-> "None", memory_size |-> "None",
     web_search_enabled |-> FALSE, message_count |-> 0, last_message |-> NoLastMessage,
     timestamp |-> 0]

AddCall(pc, c, agent_id, w, content, message_id, now, n, payload) ==
    [op |-> "add_message", pc |-> pc, chat_id |-> c, agent_id |-> agent_id, wallet |-> w,
     content |-> content, message_id |-> message_id, now |-> now, n |-> n, payload |-> payload]

GoneUntouched == UNCHANGED <<agents, pointers, capsules, staking, earnings, hist, preferences,
                            served, singleton, collections>>

\* add_message: get_chat, then MessageService.add_message up to its await
AddMessageBegin(p, c, w, content) ==
    /\ Idle(p)
    /\ LET chat == get_chat(chats, messages, c, w)
       IN IF chat = NoneOut \/ chat.agent_id = NoAgent
          THEN /\ last' = Call("add_message", c, w, Standing(chats, c, w), Raise("Chat not found"))
               /\ UNCHANGED calls
          ELSE /\ Enter(p, AddCall("embed", c, chat.agent_id, w, content, 0, 0, 0, EmptyChat))
               /\ UNCHANGED last
    /\ UNCHANGED <<chats, messages, ids>>
    /\ GoneUntouched

\* the embedding call has returned: upsert_record of the message
AddMessageStore(p, embedOk, now) ==
    /\ At(p, "add_message", "embed")
    /\ LET call == calls[p]
       IN IF ~embedOk
          THEN /\ last' = Call("add_message", call.chat_id, call.wallet,
                               Standing(chats, call.chat_id, call.wallet), Raise("embedding"))
               /\ Leave(p)
               /\ UNCHANGED <<messages, ids>>
          ELSE /\ ids.messages < MaxMsgs
               /\ messages' = Put(messages, ids.messages + 1,
                                  MessagePayload(call.chat_id, call.agent_id, call.wallet,
                                                 call.content, now))
               /\ ids' = [ids EXCEPT !.messages = @ + 1]
               /\ calls' = [calls EXCEPT ![p].pc = "count", ![p].message_id = ids.messages + 1,
                                         ![p].now = now]
               /\ UNCHANGED last
    /\ UNCHANGED chats
    /\ GoneUntouched

\* add_message: list_messages(chat_id, wallet, limit=5000)
AddMessageCount(p) ==
    /\ At(p, "add_message", "count")
    /\ calls' = [calls EXCEPT ![p].pc = "counters",
                              ![p].n = Len(list_messages(messages, calls[p].chat_id,
                                                         calls[p].wallet, COUNTER_LIST_LIMIT))]
    /\ UNCHANGED <<chats, messages, ids, last>>
    /\ GoneUntouched

\* update_chat_counters: get_by_id and the two early returns
AddMessageCountersRead(p) ==
    /\ At(p, "add_message", "counters")
    /\ LET call == calls[p]
       IN IF \/ call.chat_id \notin DOMAIN chats
             \/ call.wallet # NoWallet /\ chats[call.chat_id].wallet # call.wallet
          THEN /\ last' = Call("add_message", call.chat_id, call.wallet,
                               Standing(chats, call.chat_id, call.wallet),
                               MessageView(call.message_id, call.content, call.now))
               /\ Leave(p)
          ELSE /\ calls' = [calls EXCEPT ![p].pc = "write", ![p].payload = chats[call.chat_id]]
               /\ UNCHANGED last
    /\ UNCHANGED <<chats, messages, ids>>
    /\ GoneUntouched

\* update_chat_counters: upsert_record of the payload it read
AddMessageCountersWrite(p) ==
    /\ At(p, "add_message", "write")
    /\ LET call == calls[p]
       IN /\ chats' = Put(chats, call.chat_id,
                          [call.payload EXCEPT !.message_count = call.n,
                                               !.last_message = Slice(call.content,
                                                                      LAST_MESSAGE_CHARS)])
          /\ last' = Call("add_message", call.chat_id, call.wallet,
                          Standing(chats, call.chat_id, call.wallet),
                          MessageView(call.message_id, call.content, call.now))
    /\ Leave(p)
    /\ UNCHANGED <<messages, ids>>
    /\ GoneUntouched

\* update_chat: get_chat and the fields of the request
UpdateChatBegin(p, c, w, name) ==
    /\ Idle(p)
    /\ LET existing == get_chat(chats, messages, c, w)
       IN IF existing = NoneOut
          THEN /\ last' = Call("update_chat", c, w, Standing(chats, c, w), Raise("Chat not found"))
               /\ UNCHANGED calls
          ELSE /\ Enter(p, [op |-> "update_chat", pc |-> "read", chat_id |-> c, wallet |-> w,
                            name |-> IF name # NoPatch THEN name ELSE existing.name,
                            memory_size |-> existing.memory_size,
                            web_search_enabled |-> existing.web_search_enabled,
                            payload |-> EmptyChat])
               /\ UNCHANGED last
    /\ UNCHANGED <<chats, messages, ids>>
    /\ GoneUntouched

\* update_chat: get_by_id; a record that is gone reads as an empty payload
UpdateChatRead(p) ==
    /\ At(p, "update_chat", "read")
    /\ calls' = [calls EXCEPT ![p].pc = "write",
                              ![p].payload = IF calls[p].chat_id \in DOMAIN chats
                                             THEN chats[calls[p].chat_id] ELSE EmptyChat]
    /\ UNCHANGED <<chats, messages, ids, last>>
    /\ GoneUntouched

\* update_chat: payload.update(...) and upsert_record
UpdateChatWrite(p) ==
    /\ At(p, "update_chat", "write")
    /\ LET call == calls[p]
       IN /\ chats' = Put(chats, call.chat_id,
                          [call.payload EXCEPT !.name = call.name,
                                               !.memory_size = call.memory_size,
                                               !.web_search_enabled = call.web_search_enabled])
          /\ last' = Call("update_chat", call.chat_id, call.wallet,
                          Standing(chats, call.chat_id, call.wallet), Done)
    /\ Leave(p)
    /\ UNCHANGED <<messages, ids>>
    /\ GoneUntouched

NextGone ==
    \/ /\ \A p \in Procs : Idle(p)
       /\ OneAtATime
       /\ \/ ids.agents = 0 /\ CreateAgentRecord("w1", Plain("sk-1"), "d1", "m1")
          \/ ids.agents > 0 /\ CreateChatAt(1, "w1", "c1", "Small", FALSE, 0)
    \/ \E c \in RealChats : c \in DOMAIN chats /\ DeleteChatBegin(c, chats[c].wallet)
    \/ DeleteChatPointers(FALSE)
    \/ DeleteChatMessages
    \/ DeleteChatRecord
    \/ \E p \in Writers, c \in RealChats : AddMessageBegin(p, c, "w1", ShortText)
    \/ \E p \in Writers, ok \in BOOLEAN : AddMessageStore(p, ok, 0)
    \/ \E p \in Writers : AddMessageCount(p)
    \/ \E p \in Writers : AddMessageCountersRead(p)
    \/ \E p \in Writers : AddMessageCountersWrite(p)
    \/ \E p \in Writers, c \in RealChats : UpdateChatBegin(p, c, "w1", "c2")
    \/ \E p \in Writers : UpdateChatRead(p)
    \/ \E p \in Writers : UpdateChatWrite(p)

SpecGone == Init /\ [][NextGone]_vars

\* the chats whose delete_chat has returned: the ids handed out that are not
\* stored (here a chat record is removed only by the last store call of a
\* delete_chat of its owner)
Gone == {c \in RealChats : c \notin DOMAIN chats}

\* C39: once the owner's delete_chat of a chat has returned, no step of an
\* add_message or update_chat that was running next to it writes a chat
\* record with that id or adds a message with that chat_id
C39_StaysDeleted ==
    [][\A c \in Gone :
         /\ c \notin DOMAIN chats'
         /\ \A m \in DOMAIN messages' \ DOMAIN messages : messages'[m].chat_id # c]_vars

\* part of C39: no step writes a chat record with the id of a deleted chat
C39_NotRecreated ==
    [][\A c \in Gone : c \notin DOMAIN chats']_vars

\* an add_message that passed get_chat before the delete stored its message
\* after it: the chat is gone and a message of it is stored
C39_WitnessOrphan ==
    /\ \E p \in Writers : At(p, "add_message", "count") /\ calls[p].chat_id \in Gone
    /\ \E m \in DOMAIN messages : messages[m].chat_id \in Gone
    /\ Idle(Deleter)

\* a create_staking or a query_capsule makes its last store call
StakeReturns(p) == At(p, "create_staking", "write") /\ calls'[p] = IdleCall
QueryReturns(p) == At(p, "query_capsule", "inc_write") /\ calls'[p] = IdleCall

\* one create_staking and one query_capsule on capsule c, and no
\* update_capsule, have run and returned
StakedAndQueried(c) ==
    /\ \A p \in Procs : Idle(p)
    /\ c \in DOMAIN capsules
    /\ capsules[c].name \in CapsuleNames
    /\ Count(served.queries, c) = 1
    /\ Cardinality({i \in DOMAIN staking : staking[i].capsule_id = c}) = 1

\* C40: the write of a create_staking leaves query_count, price_per_query
\* and metadata of the capsule as they are, the write of a query_capsule
\* leaves stake_amount and is_listed as they are, and once a create_staking
\* and a query_capsule on one capsule have both returned the capsule holds
\* the stake and the incremented count
C40_FieldsUndisturbed ==
    /\ [][\A p \in Procs :
            /\ StakeReturns(p) =>
                 /\ capsules'[calls[p].cid].query_count = capsules[calls[p].cid].query_count
                 /\ capsules'[calls[p].cid].price_per_query = capsules[calls[p].cid].price_per_query
                 /\ capsules'[calls[p].cid].metadata = capsules[calls[p].cid].metadata
            /\ QueryReturns(p) =>
                 /\ capsules'[calls[p].cid].stake_amount = capsules[calls[p].cid].stake_amount
                 /\ capsules'[calls[p].cid].is_listed = capsules[calls[p].cid].is_listed]_vars
    /\ [](\A c \in DOMAIN capsules :
            StakedAndQueried(c) => /\ capsules[c].query_count = 1
                                   /\ capsules[c].stake_amount = StakedOn(staking, c))

\* a create_staking of 5 and a query_capsule have both returned and the
\* capsule holds the stake without the query, or the query without the stake
C40_WitnessLost ==
    \E c \in DOMAIN capsules :
        /\ StakedAndQueried(c)
        /\ StakedOn(staking, c) = 5
        /\ \/ capsules[c].query_count = 0 /\ capsules[c].stake_amount = 5
           \/ capsules[c].query_count = 1 /\ capsules[c].stake_amount = 0

====
